---- MODULE Spec2Model ----
(***************************************************************************)
(* Model of the mod acquisition and installation pipeline of qwikee:       *)
(*   - the Staging Set of src/mcmod/cli.py (ModManager, staging methods), *)
(*   - the download engine of src/qwikee.py (QwikeeInstaller.download_file)*)
(*     and the install loop of src/mcmod/cli.py (install_staged_mods),     *)
(*   - the installed-state rescan of src/mcmod/cli.py                      *)
(*     (ModManager.get_installed_mods) and the metadata extractor          *)
(*     (ModParser),                                                        *)
(*   - the expansion of a mod list file (process_mod_list_file,            *)
(*     QwikeeInstaller.parse_modlist) and the resolution of its references *)
(*     (BatchModProcessor.process_mod_names),                              *)
(*   - the install batches (QwikeeInstaller.install_mods,                  *)
(*     install_staged_mods) and the write of the staging file,             *)
(*   - the registry client of src/mcmod/cli.py (ModrinthAPI: release       *)
(*     selection, the modpack manifest, the RateLimiter, the update check) *)
(*     and the settings of src/qwikee.py (QwikeeConfig, config).           *)
(* The specifications share the module: Spec (staging), SpecRoundTrip,     *)
(* SpecDownload, SpecRescan, SpecParse, SpecExpand, SpecResolve,           *)
(* SpecInstall, SpecPersist, SpecSelect, SpecManifest, SpecGate,           *)
(* SpecFound, SpecRetry, SpecUpdate and SpecConfig.  Each leaves the       *)
(* other subsystems' variables unchanged.                                  *)
(***************************************************************************)
EXTENDS Integers, Sequences, FiniteSets, TLC

VARIABLES
    stagingFile,   \* the persisted staging file: [exists, doc, whole], doc a JSON document
    lastOp,        \* name of the last staging operation that returned
    lastMods,      \* the descriptors handed to that operation
    lastId,        \* the id handed to remove_from_staging
    lastRet,       \* what it returned: [ok, added, skipped]
    before,        \* what get_staged_mods returned at the start of that operation
    dest,          \* the file at the final destination path: [exists, data]
    temp,          \* the file at destination.with_suffix('.tmp'): [exists, data]
    pc,            \* position of the running download_file call
    call,          \* arguments of the running / last download_file call
    resp,          \* the response being streamed: [status, body]
    result,        \* outcome of the last download / install: [op, ret, why]
    hist,          \* history of the download calls (what held at call start)
    modDir,        \* the mod directory: [exists, readable, files]
    snapshot,      \* the persisted installed-mods record: [exists, doc]
    scan,          \* the last call on the mod directory: [op, ret, dirOk, exc, runs, prior]
    parsed,        \* the last parse_mod_file call: [archive, kind, mod]
    expand,        \* a mod list file and its expansion: [lines, op, entries, warned]
    batch,         \* the running process_mod_names call: [op, names, i, found, failed, log, cause]
    site,          \* the install target: [dir, readable, auto_backup, backup_enabled]
    inst,          \* the running install batch (install_mods or install_staged_mods)
    writer,        \* the running save_staged_mods call: [op, old, new, pc]
    sel,           \* a release selection: [op, answer, all_versions, ret]
    scratch,       \* a download_modpack_manifest call: [pc, url, content, exists, written, outcome, ret]
    gate,          \* the pacing gate of a ModrinthAPI instance: [pc, endpoint, now, read, last_call, wake, previous]
    upd,           \* an update check: [op, files, newer, installed, updates, message, ended]
    conf           \* the qwikee settings: [stored, op, given, before]

stagingVars  == <<stagingFile, lastOp, lastMods, lastId, lastRet, before>>
downloadVars == <<dest, temp, pc, call, resp, result, hist>>
rescanVars   == <<modDir, snapshot, scan>>
parseVars    == <<parsed>>
expandVars   == <<expand>>
resolveVars  == <<batch>>
installVars  == <<site, inst>>
persistVars  == <<writer>>
serviceVars  == <<sel, scratch, gate, upd, conf>>
toolVars     == <<parseVars, expandVars, resolveVars, installVars, persistVars, serviceVars>>
\* everything but the registry-side variables
coreVars     == <<stagingVars, downloadVars, rescanVars, parseVars, expandVars, resolveVars,
                 installVars, persistVars>>
\* what each registry-side call leaves alone
exceptSel     == <<coreVars, scratch, gate, upd, conf>>
exceptScratch == <<coreVars, sel, gate, upd, conf>>
exceptGate == <<coreVars, sel, scratch, upd, conf>>
exceptUpd == <<coreVars, sel, scratch, gate, conf>>
exceptConf == <<coreVars, sel, scratch, gate, upd>>
exceptParse  == <<stagingVars, downloadVars, rescanVars, expandVars, resolveVars, installVars, persistVars, serviceVars>>
exceptExpand == <<stagingVars, downloadVars, rescanVars, parseVars, resolveVars, installVars, persistVars, serviceVars>>
exceptResolve == <<stagingVars, downloadVars, rescanVars, parseVars, expandVars, installVars, persistVars, serviceVars>>
\* an install batch touches the staging file, the target and its own state
exceptInstall == <<lastOp, lastMods, lastId, lastRet, before, downloadVars, rescanVars,
                   parseVars, expandVars, resolveVars, persistVars, serviceVars>>
\* a staging write touches the staging file and its own state
exceptPersist == <<lastOp, lastMods, lastId, lastRet, before, downloadVars, rescanVars,
                   parseVars, expandVars, resolveVars, installVars, serviceVars>>
vars == <<stagingFile, lastOp, lastMods, lastId, lastRet, before,
          dest, temp, pc, call, resp, result, hist, modDir, snapshot, scan,
          parsed, expand, batch, site, inst, writer, sel, scratch, gate, upd, conf>>

(***************************************************************************)
(* Generic helpers.                                                        *)
(***************************************************************************)
RECURSIVE SeqsUpTo(_, _)
SeqsUpTo(S, n) ==
    IF n = 0 THEN { <<>> }
    ELSE LET shorter == SeqsUpTo(S, n - 1)
         IN  shorter \cup { Append(s, x) : s \in {t \in shorter : Len(t) = n - 1}, x \in S }

Range(s) == { s[i] : i \in 1..Len(s) }

(***************************************************************************)
(* ModInfo (src/mcmod/cli.py:58-83).                                       *)
(***************************************************************************)
\* the dataclass fields, in declaration order
ModInfoFields ==
    << "id", "name", "description", "author", "downloads", "categories",
       "game_versions", "download_url", "filename", "mod_loader", "file_size",
       "project_url", "version_id", "version_number", "file_hash", "last_updated" >>

\* fields without a default: cls(**data) raises TypeError when one is missing
ModInfoRequired ==
    { "id", "name", "description", "author", "downloads", "categories",
      "game_versions", "download_url", "filename" }

\* the defaults of the remaining fields
ModInfoDefaults ==
    [ mod_loader |-> "fabric", file_size |-> 0, project_url |-> "",
      version_id |-> "", version_number |-> "", file_hash |-> "", last_updated |-> "" ]

\* the runtime type of each field's value, on which json.dump dispatches
ModInfoTypes ==
    [ id |-> "str", name |-> "str", description |-> "str", author |-> "str",
      downloads |-> "int", categories |-> "list", game_versions |-> "list",
      download_url |-> "str", filename |-> "str", mod_loader |-> "str",
      file_size |-> "int", project_url |-> "str", version_id |-> "str",
      version_number |-> "str", file_hash |-> "str", last_updated |-> "str" ]

\* the registry ids and releases the model draws descriptors from
ModIds == { "a", "b", "c" }
Releases == { "v1", "v2" }

\* BatchModProcessor.create_mod_info_from_api_data: the descriptor of release v of project i
MakeModInfo(i, v) ==
    [ id |-> i, name |-> "Mod " \o i, description |-> "No description",
      author |-> "Unknown", downloads |-> IF i = "a" THEN 0 ELSE 7,
      categories |-> IF i = "a" THEN <<>> ELSE <<"utility", i>>,
      game_versions |-> IF v = "v1" THEN <<"1.20.1">> ELSE <<"1.20.1", "1.20.2">>,
      download_url |-> "https://cdn/" \o i \o "/" \o v, filename |-> i \o "-" \o v \o ".jar",
      mod_loader |-> IF i = "c" THEN "forge" ELSE "fabric",
      file_size |-> IF v = "v1" THEN 0 ELSE 2048,
      project_url |-> "https://modrinth.com/mod/" \o i, version_id |-> v,
      version_number |-> IF v = "v1" THEN "" ELSE "2.0",
      file_hash |-> IF v = "v1" THEN "" ELSE "h" \o i, last_updated |-> "" ]

Descriptors == { MakeModInfo(i, v) : i \in ModIds, v \in Releases }

(***************************************************************************)
(* JSON text, as json.dump writes it and json.load reads it: a document is *)
(* an array of objects, an object a sequence of <<key, value>> members in  *)
(* the dict's insertion order, a value a tagged scalar or array.           *)
(***************************************************************************)
JsonEncode(type, value) ==
    CASE type = "str"  -> <<"string", value>>
      [] type = "int"  -> <<"number", value>>
      [] type = "list" -> <<"array", [i \in 1..Len(value) |-> <<"string", value[i]>>]>>

JsonDecode(jv) ==
    CASE jv[1] = "string" -> jv[2]
      [] jv[1] = "number" -> jv[2]
      [] jv[1] = "array"  -> [i \in 1..Len(jv[2]) |-> jv[2][i][2]]

\* ModInfo.to_dict + json.dump of one descriptor: asdict keeps the field order
ModInfoToJson(mod) ==
    [ i \in 1..Len(ModInfoFields) |->
        <<ModInfoFields[i], JsonEncode(ModInfoTypes[ModInfoFields[i]], mod[ModInfoFields[i]])>> ]

\* json.load of one object: a dict from the keys present to their values, a
\* later member of the same key replacing an earlier one
RECURSIVE JsonMembersToDict(_, _)
JsonMembersToDict(obj, n) ==
    IF n = 0 THEN [k \in {} |-> 0]
    ELSE (obj[n][1] :> JsonDecode(obj[n][2])) @@ JsonMembersToDict(obj, n - 1)

JsonObjectToDict(obj) == JsonMembersToDict(obj, Len(obj))

\* cls(**data) succeeds iff every key is a field and every required field is given
ModInfoAccepts(data) ==
    /\ DOMAIN data \subseteq Range(ModInfoFields)
    /\ ModInfoRequired \subseteq DOMAIN data

\* mutant: from_dict that passes the required fields only
ModInfoFromDictRequiredOnly(data) ==
    [ f \in Range(ModInfoFields) |->
        IF f \in ModInfoRequired THEN data[f] ELSE ModInfoDefaults[f] ]

\* ModInfo.from_dict: cls(**data), missing optional fields take their defaults
ModInfoFromDict(data) ==
    [ f \in Range(ModInfoFields) |->
        IF f \in DOMAIN data THEN data[f] ELSE ModInfoDefaults[f] ]

(***************************************************************************)
(* ModManager staging (src/mcmod/cli.py:819-913).                          *)
(***************************************************************************)
\* a file is [exists, doc, whole]: whole is false while the JSON text on disk
\* stops short of the end of the document
NoFile == [exists |-> FALSE, doc |-> <<>>, whole |-> TRUE]

\* get_staged_mods: [] when the file is missing, when json.load fails on a
\* text that is not a whole document, or when any object fails to load
get_staged_mods(file) ==
    IF ~file.exists THEN <<>>
    ELSE IF ~file.whole THEN <<>>
    ELSE LET dicts == [i \in 1..Len(file.doc) |-> JsonObjectToDict(file.doc[i])]
         IN  IF \A i \in 1..Len(dicts) : ModInfoAccepts(dicts[i])
             THEN [i \in 1..Len(dicts) |-> ModInfoFromDict(dicts[i])]
             ELSE <<>>

\* save_staged_mods: open(..., 'w') and json.dump of every descriptor's dict
save_staged_mods(mods) ==
    [exists |-> TRUE, doc |-> [i \in 1..Len(mods) |-> ModInfoToJson(mods[i])], whole |-> TRUE]

\* mutant: staged_ids starts empty instead of holding the staged ids
StagedIdsEmpty(mods) == {}

StagedIds(mods) == { mods[i].id : i \in 1..Len(mods) }

\* mutant: the loop without staged_ids.add(mod.id)
RECURSIVE PartitionNewNoAdd(_, _, _)
PartitionNewNoAdd(mods, i, seen) ==
    IF i > Len(mods) THEN [new |-> <<>>, skipped |-> 0]
    ELSE LET rest == PartitionNewNoAdd(mods, i + 1, seen)
         IN  IF mods[i].id \notin seen
             THEN [new |-> <<mods[i]>> \o rest.new, skipped |-> rest.skipped]
             ELSE [new |-> rest.new, skipped |-> rest.skipped + 1]

\* the loop of add_mods_to_staging: new_mods and skipped_count after the items of
\* mods from index i on, given the ids already seen
RECURSIVE PartitionNew(_, _, _)
PartitionNew(mods, i, seen) ==
    IF i > Len(mods) THEN [new |-> <<>>, skipped |-> 0]
    ELSE IF mods[i].id \notin seen
         THEN LET rest == PartitionNew(mods, i + 1, seen \cup {mods[i].id})
              IN  [new |-> <<mods[i]>> \o rest.new, skipped |-> rest.skipped]
         ELSE LET rest == PartitionNew(mods, i + 1, seen)
              IN  [new |-> rest.new, skipped |-> rest.skipped + 1]

\* largest batch handed to add_mods_to_staging
MaxBatch == 3

Batches == SeqsUpTo(Descriptors, MaxBatch)

NoRet == [ok |-> FALSE, added |-> 0, skipped |-> 0]

\* mutant: add_to_staging without the already-staged test
add_to_staging_unchecked(mod) ==
    /\ lastOp' = "add_to_staging"
    /\ lastMods' = <<mod>>
    /\ lastId' = mod.id
    /\ stagingFile' = save_staged_mods(Append(before', mod))
    /\ lastRet' = [ok |-> TRUE, added |-> 0, skipped |-> 0]

\* before' is staged_mods = self.get_staged_mods(), read once at the start of each operation
add_to_staging(mod) ==
    /\ lastOp' = "add_to_staging"
    /\ lastMods' = <<mod>>
    /\ lastId' = mod.id
    /\ IF \E i \in 1..Len(before') : before'[i].id = mod.id
       THEN /\ lastRet' = [NoRet EXCEPT !.ok = FALSE]
            /\ UNCHANGED stagingFile
       ELSE /\ stagingFile' = save_staged_mods(Append(before', mod))
            /\ lastRet' = [NoRet EXCEPT !.ok = TRUE]

add_mods_to_staging(mods) ==
    LET part == PartitionNew(mods, 1, StagedIds(before'))
    IN  /\ lastOp' = "add_mods_to_staging"
        /\ lastMods' = mods
        /\ lastId' = ""
        /\ lastRet' = [ok |-> TRUE, added |-> Len(part.new), skipped |-> part.skipped]
        /\ IF part.new # <<>>
           THEN stagingFile' = save_staged_mods(before' \o part.new)
           ELSE UNCHANGED stagingFile

remove_from_staging(mod_id) ==
    LET Other(m) == m.id # mod_id
        kept == SelectSeq(before', Other)
    IN  /\ lastOp' = "remove_from_staging"
        /\ lastMods' = <<>>
        /\ lastId' = mod_id
        /\ IF Len(kept) < Len(before')
           THEN /\ stagingFile' = save_staged_mods(kept)
                /\ lastRet' = [NoRet EXCEPT !.ok = TRUE]
           ELSE /\ UNCHANGED stagingFile
                /\ lastRet' = [NoRet EXCEPT !.ok = FALSE]

clear_staging ==
    /\ lastOp' = "clear_staging"
    /\ lastMods' = <<>>
    /\ lastId' = ""
    /\ stagingFile' = save_staged_mods(<<>>)
    /\ lastRet' = [NoRet EXCEPT !.ok = TRUE]

\* each staging operation runs in a CLI command of its own (a fresh ModManager)
AddToStaging ==
    /\ lastOp = "none"
    /\ before' = get_staged_mods(stagingFile)
    /\ \E mod \in Descriptors : add_to_staging(mod)
    /\ UNCHANGED <<downloadVars, rescanVars, toolVars>>
AddModsToStaging ==
    /\ lastOp = "none"
    /\ before' = get_staged_mods(stagingFile)
    /\ \E mods \in Batches : add_mods_to_staging(mods)
    /\ UNCHANGED <<downloadVars, rescanVars, toolVars>>
RemoveFromStaging ==
    /\ lastOp = "none"
    /\ before' = get_staged_mods(stagingFile)
    /\ \E mod_id \in ModIds : remove_from_staging(mod_id)
    /\ UNCHANGED <<downloadVars, rescanVars, toolVars>>
ClearStaging ==
    /\ lastOp = "none"
    /\ before' = get_staged_mods(stagingFile)
    /\ clear_staging
    /\ UNCHANGED <<downloadVars, rescanVars, toolVars>>
\* the command is over: the next one starts from the persisted file alone
CommandExits ==
    /\ lastOp # "none"
    /\ lastOp' = "none"
    /\ lastMods' = <<>>
    /\ lastId' = ""
    /\ lastRet' = NoRet
    /\ before' = <<>>
    /\ UNCHANGED <<stagingFile, downloadVars, rescanVars, toolVars>>

(***************************************************************************)
(* QwikeeInstaller.download_file (src/qwikee.py:394-482) and the per-mod   *)
(* body of install_staged_mods (src/mcmod/cli.py:2113-2145).  One          *)
(* destination path and its '.tmp' sibling are modelled; a file is         *)
(* [exists, data], data a sequence of chunks.  A transfer delivers the     *)
(* whole body or raises.                                                   *)
(***************************************************************************)
\* length in chunks of the longest remote artifact
MaxLen == 3

Urls == { "u1", "u2" }

\* what the remote serves for each url
Source(url) ==
    IF url = "u1" THEN [i \in 1..MaxLen |-> i] ELSE [i \in 1..(MaxLen - 1) |-> 10 + i]

NoData == [exists |-> FALSE, data |-> <<>>]
FileOf(data) == [exists |-> TRUE, data |-> data]

\* hashlib.sha1(...).hexdigest() of verify_file_hash, as an ideal hash
Sha1(data) == <<"sha1", data>>
\* hashlib.sha256(...).hexdigest() of FileUtils.calculate_file_hash
Sha256(data) == <<"sha256", data>>
\* expected_hash None / file_hash ""
NoHash == <<>>

\* expected_size None or 0: `if expected_size` is false for both
SizeKnown(expected_size) == expected_size # 0
HashKnown(expected_hash) == expected_hash # NoHash

ExpectedSizes == { 0 } \cup { Len(Source(u)) : u \in Urls }
ExpectedSha1 == { NoHash } \cup { Sha1(Source(u)) : u \in Urls }
ExpectedSha256 == { NoHash } \cup { Sha256(Source(u)) : u \in Urls }

verify_file_hash(data, expected_hash) == Sha1(data) = expected_hash

\* mutant: an existing file counts as valid only when a hash confirms it
AlreadyValidNeedsHash(file, expected_size, expected_hash) ==
    /\ file.exists
    /\ expected_size # 0
    /\ Len(file.data) = expected_size
    /\ expected_hash # <<>>
    /\ <<"sha1", file.data>> = expected_hash

\* download_file's "file already exists and is valid" test
AlreadyValid(file, expected_size, expected_hash) ==
    /\ file.exists
    /\ SizeKnown(expected_size)
    /\ Len(file.data) = expected_size
    /\ IF HashKnown(expected_hash)
       THEN verify_file_hash(file.data, expected_hash)
       ELSE TRUE

\* the Range header: the temp file's size when it exists, -1 for no header
ResumeFrom(tmp) == IF tmp.exists THEN Len(tmp.data) ELSE -1

\* mutant: append whenever a Range header was sent, whatever the status
OpenModeAlwaysAppend(range, status) == IF range >= 0 THEN "ab" ELSE "wb"

\* the mode the temp file is opened in
OpenMode(range, status) == IF range >= 0 /\ status = 206 THEN "ab" ELSE "wb"

\* mutant: the verification without the hash check
VerifyOutcomeSizeOnly(data, expected_size, expected_hash) ==
    IF expected_size # 0 /\ Len(data) # expected_size THEN "size" ELSE "ok"

\* the verification after the transfer: which check fails, or "ok"
VerifyOutcome(data, expected_size, expected_hash) ==
    IF SizeKnown(expected_size) /\ Len(data) # expected_size THEN "size"
    ELSE IF HashKnown(expected_hash) /\ ~verify_file_hash(data, expected_hash) THEN "hash"
    ELSE "ok"

\* mutant: the comparison of the hash check inverted
HashWarningInverted(data, file_hash) ==
    /\ file_hash # <<>>
    /\ <<"sha256", data>> = file_hash

\* install_staged_mods: does the hash check print its warning
HashWarning(data, file_hash) ==
    /\ HashKnown(file_hash)
    /\ Sha256(data) # NoHash
    /\ Sha256(data) # file_hash

NoCall == [url |-> "", esize |-> 0, ehash |-> NoHash, range |-> -1]
NoResp == [status |-> 0, body |-> <<>>]
NoResult == [op |-> "none", ret |-> "none", why |-> "", warn |-> FALSE]
NoHist ==
    [ destAtStart |-> NoData, tempAtStart |-> NoData, requested |-> FALSE,
      tempOf |-> "none", resume |-> FALSE, completed |-> FALSE, bytes |-> <<>> ]

Outcome(ret, why) == [op |-> "download_file", ret |-> ret, why |-> why, warn |-> FALSE]

\* download_file up to the request: the validity test and the Range header
DownloadStart(url, expected_size, expected_hash) ==
    /\ pc = "idle"
    /\ call' = [url |-> url, esize |-> expected_size, ehash |-> expected_hash,
                range |-> ResumeFrom(temp)]
    /\ hist' = [hist EXCEPT
                  !.destAtStart = dest, !.tempAtStart = temp, !.requested = FALSE,
                  !.completed = FALSE, !.bytes = <<>>,
                  !.resume = /\ result.op = "download_file"
                             /\ result.why = "interrupted"
                             /\ call.url = url
                             /\ call.esize = expected_size
                             /\ call.ehash = expected_hash
                             /\ hist.tempOf = url
                             /\ temp.exists
                             /\ 0 < Len(temp.data)
                             /\ Len(temp.data) < Len(Source(url))]
    /\ IF AlreadyValid(dest, expected_size, expected_hash)
       THEN /\ pc' = "idle"
            /\ result' = Outcome("ok", "exists")
       ELSE /\ pc' = "request"
            /\ result' = Outcome("running", "")
    /\ UNCHANGED <<dest, temp, resp>>

\* session.get fails or raise_for_status raises (a range at or past the end is a 416)
RequestFails ==
    /\ pc = "request"
    /\ pc' = "idle"
    /\ result' = Outcome("fail", "request")
    /\ hist' = [hist EXCEPT !.requested = TRUE]
    /\ UNCHANGED <<dest, temp, call, resp>>

\* the response arrives and the temp file is opened; honors: the server answers a
\* Range header with 206 and the bytes from that offset, else 200 and the whole file
Respond(honors) ==
    LET src == Source(call.url)
        status == IF call.range >= 0 /\ honors THEN 206 ELSE 200
        mode == OpenMode(call.range, status)
    IN  /\ pc = "request"
        /\ status = 206 => call.range < Len(src)
        /\ resp' = [status |-> status,
                    body |-> IF status = 206 THEN SubSeq(src, call.range + 1, Len(src)) ELSE src]
        /\ temp' = IF mode = "ab" THEN FileOf(temp.data) ELSE FileOf(<<>>)
        /\ hist' = [hist EXCEPT
                      !.requested = TRUE,
                      !.tempOf = IF mode = "wb" \/ temp.data = <<>> \/ hist.tempOf = call.url
                                 THEN call.url ELSE "mixed"]
        /\ pc' = "transfer"
        /\ UNCHANGED <<dest, call, result>>

\* one chunk of iter_content is written to the temp file
WriteChunk ==
    /\ pc = "transfer"
    /\ resp.body # <<>>
    /\ temp' = FileOf(Append(temp.data, Head(resp.body)))
    /\ resp' = [resp EXCEPT !.body = Tail(resp.body)]
    /\ pc' = IF Tail(resp.body) = <<>> THEN "verify" ELSE "transfer"
    /\ UNCHANGED <<dest, call, result, hist>>

\* the connection breaks during iter_content (the exception is caught, False is
\* returned) or the process is terminated: the temp file keeps what was written
TransferInterrupted ==
    /\ pc = "transfer"
    /\ pc' = "idle"
    /\ result' = Outcome("fail", "interrupted")
    /\ UNCHANGED <<dest, temp, call, resp, hist>>

\* the size check, the hash check and temp_destination.replace(destination_path)
Verify ==
    LET outcome == VerifyOutcome(temp.data, call.esize, call.ehash)
    IN  /\ pc = "verify"
        /\ pc' = "idle"
        /\ hist' = [hist EXCEPT !.completed = TRUE, !.bytes = temp.data,
                                !.tempOf = IF outcome = "ok" THEN "none" ELSE hist.tempOf]
        /\ IF outcome = "ok"
           THEN /\ dest' = FileOf(temp.data)
                /\ temp' = NoData
                /\ result' = Outcome("ok", "renamed")
           ELSE /\ result' = Outcome("fail", outcome)
                /\ UNCHANGED <<dest, temp>>
        /\ UNCHANGED <<call, resp>>

\* one iteration of install_staged_mods' loop for a staged mod with this url and hash
InstallStagedMod(url, file_hash, response) ==
    /\ pc = "idle"
    /\ call' = [url |-> url, esize |-> 0, ehash |-> file_hash, range |-> -1]
    /\ pc' = "idle"
    /\ IF response = "ok"
       THEN /\ dest' = FileOf(Source(url))
            /\ hist' = [hist EXCEPT !.destAtStart = dest, !.tempAtStart = temp,
                                    !.requested = TRUE, !.resume = FALSE,
                                    !.completed = TRUE, !.bytes = Source(url)]
            /\ result' = [op |-> "install_staged_mods", ret |-> "ok", why |-> "installed",
                          warn |-> HashWarning(Source(url), file_hash)]
       ELSE /\ hist' = [hist EXCEPT !.destAtStart = dest, !.tempAtStart = temp,
                                    !.requested = TRUE, !.resume = FALSE,
                                    !.completed = FALSE, !.bytes = <<>>]
            /\ result' = [op |-> "install_staged_mods", ret |-> "fail", why |-> response,
                          warn |-> FALSE]
            /\ UNCHANGED dest
    /\ UNCHANGED <<temp, resp>>

StartDownload ==
    /\ \E url \in Urls, expected_size \in ExpectedSizes, expected_hash \in ExpectedSha1 :
          DownloadStart(url, expected_size, expected_hash)
    /\ UNCHANGED <<stagingVars, rescanVars, toolVars>>
RequestFailure == RequestFails /\ UNCHANGED <<stagingVars, rescanVars, toolVars>>
ResponseArrives == (\E honors \in BOOLEAN : Respond(honors)) /\ UNCHANGED <<stagingVars, rescanVars, toolVars>>
ChunkWritten == WriteChunk /\ UNCHANGED <<stagingVars, rescanVars, toolVars>>
Interrupted == TransferInterrupted /\ UNCHANGED <<stagingVars, rescanVars, toolVars>>
VerifyAndRename == Verify /\ UNCHANGED <<stagingVars, rescanVars, toolVars>>
InstallStaged ==
    /\ \E url \in Urls, file_hash \in ExpectedSha256, response \in {"ok", "http", "error"} :
          InstallStagedMod(url, file_hash, response)
    /\ UNCHANGED <<stagingVars, rescanVars, toolVars>>

(***************************************************************************)
(* ModParser (src/mcmod/cli.py:604-740) and the rescan                     *)
(* ModManager.get_installed_mods (src/mcmod/cli.py:915-1018).  An archive  *)
(* is [name, fabric, forge, legacy, opens, statable, size, mtime]: the     *)
(* state of each metadata entry is "absent", "ok", "malformed" (the parse  *)
(* error the format's own except clause catches) or "raises" (any other    *)
(* exception); opens is false for a file zipfile.ZipFile cannot open;      *)
(* statable is false for a path whose stat() fails (vanished file,         *)
(* dangling link).                                                         *)
(***************************************************************************)
InstalledOf(archive, name, mod_id, version, author, description, loader) ==
    [ filename |-> archive.name, name |-> name, version |-> version, mod_id |-> mod_id,
      author |-> author, description |-> description, mod_loader |-> loader,
      file_size |-> archive.size, file_hash |-> Sha256(<<archive.name, archive.size>>),
      install_date |-> archive.mtime, source_url |-> "", version_id |-> "" ]

\* What the name `list` denotes inside src/mcmod/cli.py.  The module defines
\* the command `def list()` under @cli.command() (lines 1914-1915), which
\* rebinds the module global: every later `list` in the module, inside
\* ModParser and ModManager too, is that click command object and not the
\* builtin type.
list == "click.Command"

\* isinstance(value, list): a TypeError when `list` is not a type
isinstance_list(is_list) ==
    IF list = "builtin" THEN (IF is_list THEN "True" ELSE "False") ELSE "TypeError"

\* list(iterable): the builtin builds the list; the click command runs
\* Command.main(args): with no argument the command body runs and main ends
\* in SystemExit, with path arguments the argument parser fails with an
\* exception or a usage error (SystemExit); either way the call never returns.
CallList(files) ==
    IF list = "builtin" THEN {"returns"}
    ELSE IF files = <<>> THEN {"SystemExit"}
    ELSE {"SystemExit", "TypeError"}

\* the formats whose parser tests isinstance(.., list) before building the record
UsesIsinstanceList == {"fabric", "legacy"}

\* each _parse_*_mod: "none" for None, "raise" for an exception it lets through
ParseEntry(archive, format) ==
    LET entry == archive[format]
    IN  IF entry \in {"absent", "malformed"} THEN "none"
        ELSE IF entry = "raises" THEN "raise"
        ELSE IF format \in UsesIsinstanceList /\ isinstance_list(TRUE) = "TypeError" THEN "raise"
        ELSE IF ~archive.statable THEN "raise"
        ELSE "mod"

\* _create_fallback_mod: filename-derived defaults; file_path.stat() raises
\* for a path that no longer resolves to a file
create_fallback_mod(archive) ==
    IF archive.statable
    THEN [kind |-> "mod",
          mod |-> InstalledOf(archive, archive.name, archive.name, "Unknown",
                              "Unknown", "No description available", "unknown")]
    ELSE [kind |-> "raise", mod |-> <<>>]

\* the order in which parse_mod_file tries the formats
FormatOrder == <<"fabric", "forge", "legacy">>

FormatRecord(archive, format) ==
    IF format = "fabric"
    THEN InstalledOf(archive, "fabric name", "fabric-id", "1.0",
                     "fabric author", "No description", "fabric")
    ELSE IF format = "forge"
    THEN InstalledOf(archive, "forge name", "forge-id", "2.0",
                     "Unknown", "No description", "forge")
    ELSE InstalledOf(archive, "legacy name", "legacy-id", "3.0",
                     "Unknown", "No description", "forge")

\* the try block of parse_mod_file from the n-th format on
RECURSIVE TryFormats(_, _)
TryFormats(archive, n) ==
    IF n > Len(FormatOrder) THEN create_fallback_mod(archive)
    ELSE LET tried == ParseEntry(archive, FormatOrder[n])
         IN  IF tried = "mod"
             THEN [kind |-> "mod", mod |-> FormatRecord(archive, FormatOrder[n])]
             ELSE IF tried = "raise" THEN create_fallback_mod(archive)
             ELSE TryFormats(archive, n + 1)

\* parse_mod_file: the record, or "raise" when its exception escapes.  A zip
\* file that cannot be opened raises in ZipFile(), which the except clause
\* catches before the fallback.
parse_mod_file(archive) ==
    IF ~archive.opens THEN create_fallback_mod(archive) ELSE TryFormats(archive, 1)

\* the archives that may appear in the mod directory
Archives ==
    { [name |-> "a.jar", fabric |-> "ok", forge |-> "absent", legacy |-> "ok",
       opens |-> TRUE, statable |-> TRUE, size |-> 10, mtime |-> "2024-01-01"],
      [name |-> "b.jar", fabric |-> "absent", forge |-> "ok", legacy |-> "absent",
       opens |-> TRUE, statable |-> TRUE, size |-> 20, mtime |-> "2024-01-02"],
      [name |-> "c.jar", fabric |-> "malformed", forge |-> "absent", legacy |-> "absent",
       opens |-> TRUE, statable |-> TRUE, size |-> 30, mtime |-> "2024-01-03"],
      [name |-> "d.jar", fabric |-> "absent", forge |-> "absent", legacy |-> "absent",
       opens |-> FALSE, statable |-> FALSE, size |-> 0, mtime |-> ""] }

\* largest number of archive files in the mod directory
MaxFiles == 3

\* the scanning loop of get_installed_mods: records of the files that parse
RECURSIVE ScanFiles(_)
ScanFiles(files) ==
    IF files = <<>> THEN <<>>
    ELSE LET mod_info == parse_mod_file(Head(files))
         IN  IF mod_info.kind = "mod"
             THEN <<mod_info.mod>> \o ScanFiles(Tail(files))
             ELSE ScanFiles(Tail(files))

NoSnapshot == [exists |-> FALSE, doc |-> <<>>]

save_installed_mods_record(mods) == [exists |-> TRUE, doc |-> mods]

get_installed_mods_record(file) == IF file.exists THEN file.doc ELSE <<>>

\* does get_installed_mods reach save_installed_mods_record for this listing
SavesRecord(mod_files) == mod_files # <<>>

\* the last call: what it returned, whether it got to the directory listing,
\* the exception that ended it, how many get_installed_mods calls ran in a
\* row on the directory as it is, and the snapshot file before the call
NoScan == [op |-> "none", ret |-> <<>>, dirOk |-> FALSE, exc |-> "none",
           runs |-> 0, prior |-> NoSnapshot]

\* get_installed_mods calls in a row, this one included (counted up to two)
RunsAfter == IF scan.op = "get_installed_mods" /\ scan.runs >= 1 THEN 2 ELSE 1

get_installed_mods(confirm, listed) ==
    LET called == [NoScan EXCEPT !.op = "get_installed_mods", !.runs = RunsAfter,
                                 !.prior = snapshot]
    IN  IF ~modDir.exists
        THEN /\ modDir' = IF confirm THEN [modDir EXCEPT !.exists = TRUE] ELSE modDir
             /\ scan' = [called EXCEPT !.runs = 0]
             /\ UNCHANGED snapshot
        ELSE IF ~modDir.readable
        THEN /\ scan' = called
             /\ UNCHANGED <<modDir, snapshot>>
        ELSE IF listed # "returns"
        THEN \* mod_files = list(mod_dir.glob("*.jar")) does not return
             /\ scan' = [called EXCEPT !.dirOk = TRUE, !.exc = listed]
             /\ UNCHANGED <<modDir, snapshot>>
        ELSE LET mod_files == modDir.files
                 installed_mods == ScanFiles(mod_files)
             IN  /\ scan' = [called EXCEPT !.dirOk = TRUE,
                                !.ret = IF SavesRecord(mod_files) THEN installed_mods ELSE <<>>]
                 /\ snapshot' = IF SavesRecord(mod_files)
                                THEN save_installed_mods_record(installed_mods)
                                ELSE snapshot
                 /\ UNCHANGED modDir

\* a mod file is written into the directory (install_staged_mods' open(mod_path, 'wb'))
FileWritten(archive) ==
    /\ modDir.exists
    /\ \A i \in 1..Len(modDir.files) : modDir.files[i].name # archive.name
    /\ Len(modDir.files) < MaxFiles
    /\ modDir' = [modDir EXCEPT !.files = Append(modDir.files, archive)]
    /\ scan' = [NoScan EXCEPT !.op = "install"]
    /\ UNCHANGED snapshot

\* remove_installed_mod: FileUtils.safe_remove of the file
remove_installed_mod(filename) ==
    LET Other(f) == f.name # filename
    IN  /\ modDir.exists
        /\ \E i \in 1..Len(modDir.files) : modDir.files[i].name = filename
        /\ modDir' = [modDir EXCEPT !.files = SelectSeq(modDir.files, Other)]
        /\ scan' = [NoScan EXCEPT !.op = "remove_installed_mod"]
        /\ UNCHANGED snapshot

\* clean_mods_folder: every *.jar removed, the record cleared; nothing is
\* removed when list(mod_dir.glob("*.jar")) does not return
clean_mods_folder(listed) ==
    /\ modDir.exists
    /\ IF listed # "returns"
       THEN /\ scan' = [NoScan EXCEPT !.op = "clean_mods_folder", !.exc = listed]
            /\ UNCHANGED <<modDir, snapshot>>
       ELSE /\ modDir' = [modDir EXCEPT !.files = <<>>]
            /\ snapshot' = save_installed_mods_record(<<>>)
            /\ scan' = [NoScan EXCEPT !.op = "clean_mods_folder"]

\* the directory's read permission changes (os.access(mod_dir, os.R_OK))
SetReadable(readable) ==
    /\ modDir.exists
    /\ modDir.readable # readable
    /\ modDir' = [modDir EXCEPT !.readable = readable]
    /\ scan' = [NoScan EXCEPT !.op = "chmod"]
    /\ UNCHANGED snapshot

Rescan ==
    /\ \E confirm \in BOOLEAN, listed \in CallList(modDir.files) :
          get_installed_mods(confirm, listed)
    /\ UNCHANGED <<stagingVars, downloadVars, toolVars>>
WriteFile == (\E archive \in Archives : FileWritten(archive)) /\ UNCHANGED <<stagingVars, downloadVars, toolVars>>
Uninstall ==
    /\ \E filename \in { a.name : a \in Archives } : remove_installed_mod(filename)
    /\ UNCHANGED <<stagingVars, downloadVars, toolVars>>
Clean ==
    /\ \E listed \in CallList(modDir.files) : clean_mods_folder(listed)
    /\ UNCHANGED <<stagingVars, downloadVars, toolVars>>
Chmod == (\E readable \in BOOLEAN : SetReadable(readable)) /\ UNCHANGED <<stagingVars, downloadVars, toolVars>>

(***************************************************************************)
(* parse_mod_file on its own (src/mcmod/cli.py:607-631): any file is       *)
(* handed to the extractor.                                                *)
(***************************************************************************)
EntryStates == {"absent", "ok", "malformed", "raises"}

\* every file the extractor may be handed
ParseInputs ==
    [ name : {"x.jar"}, fabric : EntryStates, forge : EntryStates, legacy : EntryStates,
      opens : BOOLEAN, statable : BOOLEAN, size : {10}, mtime : {"2024-01-01"} ]

NoParsed == [archive |-> <<>>, kind |-> "none", mod |-> <<>>]

ParseModFile ==
    /\ parsed.kind = "none"
    /\ parsed.archive # <<>>
    /\ LET outcome == parse_mod_file(parsed.archive)
       IN  parsed' = [parsed EXCEPT !.kind = outcome.kind, !.mod = outcome.mod]
    /\ UNCHANGED exceptParse

(***************************************************************************)
(* List expansion: BatchModProcessor.process_mod_list_file                 *)
(* (src/mcmod/cli.py:1260-1284) and QwikeeInstaller.parse_modlist /        *)
(* parse_mod_line (src/qwikee.py:302-368).  A line of the file is a        *)
(* sequence of atoms: " " for a whitespace character and one atom for the  *)
(* text between the whitespace.                                            *)
(***************************************************************************)
\* the texts a line may hold
LineTexts ==
    { "#comment", "some-mod-id", "https://host/mod.jar",
      "https://www.curseforge.com/projects/238222/files/4712866",
      "{\"type\": \"direct\", \"url\": \"https://host/other.jar\"}" }

StartsWithHash(text) == text \in {"#comment"}
StartsWithHttp(text) ==
    text \in {"https://host/mod.jar", "https://www.curseforge.com/projects/238222/files/4712866"}
ContainsCurseforge(text) ==
    text \in {"https://www.curseforge.com/projects/238222/files/4712866"}
IsBracedJson(text) ==
    text \in {"{\"type\": \"direct\", \"url\": \"https://host/other.jar\"}"}

\* the lines of a list file: empty, whitespace only, a text, an indented text
FileLines ==
    { <<>>, <<" ">> } \cup { <<text>> : text \in LineTexts }
                      \cup { <<" ", text>> : text \in LineTexts }

\* largest number of lines of a list file
MaxLines == 3

\* str.strip(): the line without its leading and trailing whitespace
strip(line) ==
    LET NotSpace(atom) == atom # " "
    IN  SelectSeq(line, NotSpace)

\* str.startswith('#') on the line as given
startswith_hash(line) == line # <<>> /\ StartsWithHash(line[1])

\* process_mod_list_file: the references handed to process_mod_names
RECURSIVE process_mod_list_file(_)
process_mod_list_file(lines) ==
    IF lines = <<>> THEN <<>>
    ELSE LET line == strip(Head(lines))
         IN  IF line # <<>> /\ ~startswith_hash(line)
             THEN <<line[1]>> \o process_mod_list_file(Tail(lines))
             ELSE process_mod_list_file(Tail(lines))

\* the list comprehension of parse_modlist: the '#' test is made on the line
\* before strip()
RECURSIVE ModlistLines(_)
ModlistLines(lines) ==
    IF lines = <<>> THEN <<>>
    ELSE IF strip(Head(lines)) # <<>> /\ ~startswith_hash(Head(lines))
         THEN <<strip(Head(lines))[1]>> \o ModlistLines(Tail(lines))
         ELSE ModlistLines(Tail(lines))

NoEntry == [type |-> "None", url |-> "", line |-> 0]

\* parse_mod_line: the entry of one line, NoEntry for None
parse_mod_line(line, line_num) ==
    IF ContainsCurseforge(line)
    THEN [type |-> "curseforge", url |-> line, line |-> line_num]
    ELSE IF IsBracedJson(line)
    THEN [type |-> "json", url |-> line, line |-> line_num]
    ELSE IF StartsWithHttp(line)
    THEN [type |-> "direct", url |-> line, line |-> line_num]
    ELSE NoEntry

\* the loop of parse_modlist over the kept lines, numbered from 1
RECURSIVE ParseLines(_, _)
ParseLines(lines, line_num) ==
    IF line_num > Len(lines) THEN <<>>
    ELSE LET mod_info == parse_mod_line(lines[line_num], line_num)
         IN  (IF mod_info # NoEntry THEN <<mod_info>> ELSE <<>>)
             \o ParseLines(lines, line_num + 1)

\* parse_modlist on a text file: the entries, and the lines it warned about
parse_modlist(lines) == ParseLines(ModlistLines(lines), 1)

ModlistWarnings(lines) ==
    LET kept == ModlistLines(lines)
    IN  { n \in 1..Len(kept) : parse_mod_line(kept[n], n) = NoEntry }

NoExpand == [lines |-> <<>>, op |-> "none", entries |-> <<>>, warned |-> {}]

ProcessModListFile ==
    /\ expand.op = "none"
    /\ expand' = [expand EXCEPT !.op = "process_mod_list_file",
                                !.entries = process_mod_list_file(expand.lines)]
    /\ UNCHANGED exceptExpand

ParseModlist ==
    /\ expand.op = "none"
    /\ expand' = [expand EXCEPT !.op = "parse_modlist",
                                !.entries = parse_modlist(expand.lines),
                                !.warned = ModlistWarnings(expand.lines)]
    /\ UNCHANGED exceptExpand

(***************************************************************************)
(* The resolver loop BatchModProcessor.process_mod_names                   *)
(* (src/mcmod/cli.py:1286-1384) over ModrinthAPI (1034-1135).  The answer  *)
(* of each registry call is an input of the step.                          *)
(***************************************************************************)
\* answers of GET /project/{id}, of GET /search and of GET /project/{id}/version
ProjectAnswers == {"hit", "404", "http_error", "network_error"}
SearchAnswers  == {"hit", "empty", "http_error", "network_error", "malformed"}
VersionAnswers == {"compatible", "none", "no_files", "malformed", "http_error", "network_error"}

\* the references of a batch and the largest batch
Refs == {"a", "b"}
MaxRefs == 2

\* get_mod_by_id: the project or None, and what it prints
get_mod_by_id(answer) ==
    [ data |-> answer = "hit",
      log  |-> IF answer = "hit" THEN <<>>
               ELSE IF answer = "404" THEN <<"Mod not found">>
               ELSE <<"Error fetching mod">> ]

\* search_mods: the hits ("hit", "empty", or "malformed" for a body whose
\* hits are not a list of results), and what it prints
search_mods(answer) ==
    [ results |-> IF answer \in {"hit", "malformed"} THEN answer ELSE "empty",
      log     |-> IF answer = "http_error" THEN <<"HTTP error searching mods">>
                  ELSE IF answer = "network_error" THEN <<"Network error searching mods">>
                  ELSE <<>> ]

\* get_mod_versions: are there compatible versions, and what it prints
get_mod_versions(answer) ==
    [ versions |-> answer \in {"compatible", "no_files", "malformed"},
      log      |-> IF answer \in {"http_error", "network_error"}
                   THEN <<"Error getting mod versions">> ELSE <<>> ]

NoMod == <<>>

\* create_mod_info_from_api_data: the descriptor or None
create_mod_info_from_api_data(project, answer) ==
    LET got == get_mod_versions(answer)
    IN  IF ~got.versions THEN [mod |-> NoMod, log |-> got.log]
        ELSE IF answer = "no_files" THEN [mod |-> NoMod, log |-> got.log]
        ELSE IF answer = "malformed"
        THEN [mod |-> NoMod, log |-> got.log \o <<"Error creating mod info">>]
        ELSE [mod |-> MakeModInfo(project, "v1"), log |-> got.log]

\* create_mod_info_from_search_result
create_mod_info_from_search_result(project, by_project, answer) ==
    LET mod_data == get_mod_by_id(by_project)
    IN  IF ~mod_data.data THEN [mod |-> NoMod, log |-> mod_data.log]
        ELSE LET made == create_mod_info_from_api_data(project, answer)
             IN  [mod |-> made.mod, log |-> mod_data.log \o made.log]

\* why a reference ended where it did (not part of the program's state)
Cause(by_id, search, by_project, versions) ==
    LET ByVersions == IF versions = "compatible" THEN "resolved"
                      ELSE IF versions = "none" THEN "incompatible"
                      ELSE IF versions = "no_files" THEN "no_files"
                      ELSE "error"
    IN  IF by_id = "hit" THEN ByVersions
        ELSE IF search = "malformed" THEN "exception"
        ELSE IF search = "hit"
        THEN (IF by_project = "hit" THEN ByVersions
              ELSE IF by_project = "404" THEN "absent" ELSE "error")
        ELSE IF by_id = "404" /\ search = "empty" THEN "absent"
        ELSE "error"

\* the except clause of the loop body: the reference is recorded as failed
FailedOnExceptionDropped(mod_name) == <<>>
FailedOnException(mod_name) == <<mod_name>>

\* one pass of the loop body of process_mod_names for mod_name
ProcessOne(mod_name, by_id, search, by_project, versions) ==
    LET mod_data == get_mod_by_id(by_id)
        Ended(made, log) ==
            [ found  |-> IF made = NoMod THEN <<>> ELSE <<made>>,
              failed |-> IF made = NoMod THEN <<mod_name>> ELSE <<>>,
              log    |-> log ]
    IN  IF mod_data.data
        THEN LET mod_info == create_mod_info_from_api_data(mod_name, versions)
             IN  Ended(mod_info.mod, mod_info.log)
        ELSE LET search_results == search_mods(search)
                 sofar == mod_data.log \o search_results.log
             IN  IF search_results.results = "malformed"
                 THEN [ found |-> <<>>, failed |-> FailedOnException(mod_name),
                        log |-> sofar \o <<"Warning: Error processing">> ]
                 ELSE IF search_results.results = "hit"
                 THEN LET mod_info ==
                              create_mod_info_from_search_result(mod_name, by_project, versions)
                      IN  Ended(mod_info.mod, sofar \o mod_info.log)
                 ELSE [found |-> <<>>, failed |-> <<mod_name>>, log |-> sofar]

NoBatch == [op |-> "none", names |-> <<>>, i |-> 0, found |-> <<>>, failed |-> <<>>,
            log |-> <<>>, cause |-> <<>>]

\* process_mod_names is called
StartBatch ==
    /\ batch.op = "none"
    /\ \E mod_names \in SeqsUpTo(Refs, MaxRefs) :
          batch' = [NoBatch EXCEPT !.op = "running", !.names = mod_names]
    /\ UNCHANGED exceptResolve

\* one iteration of `for mod_name in mod_names`
ProcessModName ==
    /\ batch.op = "running"
    /\ batch.i < Len(batch.names)
    /\ \E by_id \in ProjectAnswers, search \in SearchAnswers,
          by_project \in ProjectAnswers, versions \in VersionAnswers :
          LET mod_name == batch.names[batch.i + 1]
              done == ProcessOne(mod_name, by_id, search, by_project, versions)
          IN  batch' = [batch EXCEPT !.i = @ + 1,
                                     !.found = @ \o done.found,
                                     !.failed = @ \o done.failed,
                                     !.log = Append(@, done.log),
                                     !.cause = Append(@, Cause(by_id, search, by_project, versions))]
    /\ UNCHANGED exceptResolve

\* return found_mods, failed_mods
ReturnBatch ==
    /\ batch.op = "running"
    /\ batch.i = Len(batch.names)
    /\ batch' = [batch EXCEPT !.op = "returned"]
    /\ UNCHANGED exceptResolve

(***************************************************************************)
(* The install batches: the install command of src/qwikee.py (663-728)     *)
(* with QwikeeInstaller.install_mods / backup_existing_mods (537-620), and *)
(* install_staged_mods of src/mcmod/cli.py (2078-2158).  The target        *)
(* directory maps each file name to "absent", "old" (there before any      *)
(* batch) or "new" (written by a batch).                                   *)
(***************************************************************************)
\* the mods a batch may install and the file each is stored as
InstallMods == { MakeModInfo("a", "v1"), MakeModInfo("b", "v2") }
InstallFiles == { mod.filename : mod \in InstallMods }

\* largest number of mods in one install batch
MaxInstall == 2

EmptyDir == [f \in InstallFiles |-> "absent"]
NoBackup == [made |-> FALSE, copy |-> EmptyDir]

NoSite == [dir |-> EmptyDir, readable |-> TRUE, auto_backup |-> TRUE, backup_enabled |-> TRUE]

NoInst == [op |-> "none", pc |-> "idle", backup_option |-> TRUE, dry_run |-> FALSE,
           force |-> FALSE, queue |-> <<>>, staged |-> <<>>,
           successful |-> 0, failed |-> 0, skipped |-> 0,
           atStart |-> EmptyDir, backup |-> NoBackup, wrote |-> {},
           confirmed |-> "unasked", cleared |-> FALSE, ended |-> "none"]

\* any(mods_dir.iterdir())
DirHasEntries(dir) == \E f \in InstallFiles : dir[f] # "absent"

\* backup_existing_mods: the copy it makes; copytree may fail, which is
\* logged and leaves no backup
backup_existing_mods(auto_backup, dir, copytree_ok) ==
    IF ~auto_backup THEN NoBackup
    ELSE IF DirHasEntries(dir) /\ copytree_ok THEN [made |-> TRUE, copy |-> dir]
    ELSE NoBackup

\* the backup install_staged_mods makes before its loop: it has no backup step
StagedBackup(backup_enabled, dir) == NoBackup

\* the install command of qwikee up to the loop of install_mods; the
\* --backup/--no-backup option is received and not passed on
QwikeeInstall ==
    /\ inst.op = "none"
    /\ \E mods \in SeqsUpTo(InstallFiles, MaxInstall), force \in BOOLEAN, dry_run \in BOOLEAN,
          backup \in BOOLEAN, copytree_ok \in BOOLEAN :
          LET called == [NoInst EXCEPT !.op = "install_mods", !.backup_option = backup,
                                       !.dry_run = dry_run, !.force = force,
                                       !.atStart = site.dir]
          IN  IF mods = <<>>
              THEN inst' = [called EXCEPT !.pc = "done", !.ended = "no mods"]
              ELSE inst' = [called EXCEPT
                               !.pc = "loop", !.queue = mods,
                               !.backup = IF dry_run THEN NoBackup
                                          ELSE backup_existing_mods(site.auto_backup, site.dir,
                                                                    copytree_ok)]
    /\ UNCHANGED <<site, stagingFile, exceptInstall>>

\* one iteration of the loop of install_mods
QwikeeInstallMod ==
    /\ inst.op = "install_mods" /\ inst.pc = "loop" /\ inst.queue # <<>>
    /\ \E resolved \in BOOLEAN, overwrite \in BOOLEAN, success \in BOOLEAN :
          LET filename == Head(inst.queue)
              rest == [inst EXCEPT !.queue = Tail(@)]
          IN  IF ~resolved
              THEN /\ inst' = [rest EXCEPT !.failed = @ + 1]
                   /\ UNCHANGED site
              ELSE IF site.dir[filename] # "absent" /\ ~inst.force /\ ~overwrite
              THEN /\ inst' = [rest EXCEPT !.skipped = @ + 1]
                   /\ UNCHANGED site
              ELSE IF inst.dry_run
              THEN /\ inst' = [rest EXCEPT !.successful = @ + 1]
                   /\ UNCHANGED site
              ELSE IF success
              THEN /\ inst' = [rest EXCEPT !.successful = @ + 1, !.wrote = @ \cup {filename}]
                   /\ site' = [site EXCEPT !.dir[filename] = "new"]
              ELSE /\ inst' = [rest EXCEPT !.failed = @ + 1]
                   /\ UNCHANGED site
    /\ UNCHANGED <<stagingFile, exceptInstall>>

\* return results
QwikeeReturn ==
    /\ inst.op = "install_mods" /\ inst.pc = "loop" /\ inst.queue = <<>>
    /\ inst' = [inst EXCEPT !.pc = "done", !.ended = "returned"]
    /\ UNCHANGED <<site, stagingFile, exceptInstall>>

\* install_staged_mods up to its loop; the mod directory exists and is writable
InstallStagedStart ==
    /\ inst.op = "none"
    /\ LET staged_mods == get_staged_mods(stagingFile)
           called == [NoInst EXCEPT !.op = "install_staged_mods", !.staged = staged_mods,
                                    !.atStart = site.dir]
       IN  IF staged_mods = <<>>
           THEN inst' = [called EXCEPT !.pc = "done", !.ended = "no mods"]
           ELSE inst' = [called EXCEPT
                            !.pc = "loop",
                            !.queue = [k \in 1..Len(staged_mods) |-> staged_mods[k].filename],
                            !.backup = StagedBackup(site.backup_enabled, site.dir)]
    /\ UNCHANGED <<site, stagingFile, exceptInstall>>

\* one iteration of the loop of install_staged_mods
InstallStagedNext ==
    /\ inst.op = "install_staged_mods" /\ inst.pc = "loop" /\ inst.queue # <<>>
    /\ \E downloaded \in BOOLEAN :
          LET filename == Head(inst.queue)
              rest == [inst EXCEPT !.queue = Tail(@)]
          IN  IF downloaded
              THEN /\ inst' = [rest EXCEPT !.successful = @ + 1, !.wrote = @ \cup {filename}]
                   /\ site' = [site EXCEPT !.dir[filename] = "new"]
              ELSE /\ inst' = [rest EXCEPT !.failed = @ + 1]
                   /\ UNCHANGED site
    /\ UNCHANGED <<stagingFile, exceptInstall>>

\* is the "Clear staging area?" question reached for these counts
OffersClear(successful_installs, failed_installs) == successful_installs > 0

\* the files get_installed_mods hands to list(): the *.jar files of the directory
RECURSIVE SeqOf(_)
SeqOf(S) ==
    IF S = {} THEN <<>>
    ELSE LET x == CHOOSE y \in S : TRUE IN <<x>> \o SeqOf(S \ {x})

JarFiles(dir) == SeqOf({ f \in InstallFiles : dir[f] # "absent" })

\* the summary of install_staged_mods: the rescan, then the question
InstallStagedSummary ==
    /\ inst.op = "install_staged_mods" /\ inst.pc = "loop" /\ inst.queue = <<>>
    /\ IF ~OffersClear(inst.successful, inst.failed)
       THEN /\ inst' = [inst EXCEPT !.pc = "done", !.ended = "returned"]
            /\ UNCHANGED stagingFile
       ELSE \E listed \in (IF site.readable THEN CallList(JarFiles(site.dir)) ELSE {"returns"}),
               answer \in BOOLEAN :
               IF listed # "returns"
               THEN \* get_installed_mods does not return: the question is never asked
                    /\ inst' = [inst EXCEPT !.pc = "done", !.ended = listed]
                    /\ UNCHANGED stagingFile
               ELSE IF answer
               THEN /\ inst' = [inst EXCEPT !.pc = "done", !.ended = "returned",
                                            !.confirmed = "yes", !.cleared = TRUE]
                    /\ stagingFile' = save_staged_mods(<<>>)
               ELSE /\ inst' = [inst EXCEPT !.pc = "done", !.ended = "returned",
                                            !.confirmed = "no"]
                    /\ UNCHANGED stagingFile
    /\ UNCHANGED <<site, exceptInstall>>

\* the command is over
InstallExits ==
    /\ inst.pc = "done"
    /\ inst' = NoInst
    /\ UNCHANGED <<site, stagingFile, exceptInstall>>

(***************************************************************************)
(* The write of the staging file, step by step: save_staged_mods           *)
(* (src/mcmod/cli.py:832-838) opens the file with mode 'w', which empties  *)
(* it, json.dump then writes the document piece by piece, and leaving the  *)
(* with block closes the file.  The process can be interrupted between any *)
(* two of these steps, and json.dump can raise (the error is printed).     *)
(***************************************************************************)
\* largest list handed to add_mods_to_staging in a stepwise write
MaxWrite == 2

StagingOps == {"add_to_staging", "add_mods_to_staging", "remove_from_staging", "clear_staging"}

\* the list a mutating operation hands to save_staged_mods, given the staged
\* list it read; "none" in writes when the operation returns without saving
StagedAfter(op, staged_mods, mods, mod_id) ==
    LET NoSave == [writes |-> FALSE, mods |-> staged_mods]
        Save(updated) == [writes |-> TRUE, mods |-> updated]
    IN  IF op = "add_to_staging"
        THEN (IF \E i \in 1..Len(staged_mods) : staged_mods[i].id = mods[1].id
              THEN NoSave ELSE Save(Append(staged_mods, mods[1])))
        ELSE IF op = "add_mods_to_staging"
        THEN LET part == PartitionNew(mods, 1, StagedIds(staged_mods))
             IN  IF part.new # <<>> THEN Save(staged_mods \o part.new) ELSE NoSave
        ELSE IF op = "remove_from_staging"
        THEN LET Other(m) == m.id # mod_id
                 kept == SelectSeq(staged_mods, Other)
             IN  IF Len(kept) < Len(staged_mods) THEN Save(kept) ELSE NoSave
        ELSE Save(<<>>)

NoWriter == [op |-> "none", old |-> <<>>, new |-> <<>>, pc |-> "idle"]

\* open(self.staging_file, 'w'): the file exists and is empty
OpenForWrite == [exists |-> TRUE, doc |-> <<>>, whole |-> FALSE]

\* a mutating operation reads the staged list, computes the new one and opens
\* the file for writing
OpenStagingFile ==
    /\ writer.pc = "idle"
    /\ \E op \in StagingOps, mods \in SeqsUpTo(Descriptors, MaxWrite), mod_id \in ModIds :
          /\ op = "add_to_staging" => Len(mods) = 1
          /\ op \in {"remove_from_staging", "clear_staging"} => mods = <<>>
          /\ op # "remove_from_staging" => mod_id = "a"
          /\ LET staged_mods == get_staged_mods(stagingFile)
                 after == StagedAfter(op, staged_mods, mods, mod_id)
             IN  /\ after.writes
                 /\ writer' = [op |-> op, old |-> staged_mods, new |-> after.mods,
                               pc |-> "writing"]
                 /\ stagingFile' = OpenForWrite
    /\ UNCHANGED exceptPersist

\* json.dump writes the next object of the list
WriteObject ==
    /\ writer.pc = "writing"
    /\ Len(stagingFile.doc) < Len(writer.new)
    /\ stagingFile' = [stagingFile EXCEPT
                          !.doc = Append(@, ModInfoToJson(writer.new[Len(@) + 1]))]
    /\ UNCHANGED <<writer, exceptPersist>>

\* the end of the document is written and the file closed: the operation returns
CloseStagingFile ==
    /\ writer.pc = "writing"
    /\ Len(stagingFile.doc) = Len(writer.new)
    /\ stagingFile' = [stagingFile EXCEPT !.whole = TRUE]
    /\ writer' = [writer EXCEPT !.pc = "returned"]
    /\ UNCHANGED exceptPersist

\* the write does not finish: the process is killed, or json.dump raises and
\* the except clause prints the error; the file stays as far as it was written
WriteInterrupted ==
    /\ writer.pc = "writing"
    /\ \E how \in {"killed", "raised"} : writer' = [writer EXCEPT !.pc = how]
    /\ UNCHANGED <<stagingFile, exceptPersist>>

\* the command is over, the next one starts from the file alone
WriterExits ==
    /\ writer.pc \in {"returned", "killed", "raised"}
    /\ writer' = NoWriter
    /\ UNCHANGED <<stagingFile, exceptPersist>>

(***************************************************************************)
(* Release selection: ModrinthAPI.get_mod_versions                         *)
(* (src/mcmod/cli.py:1110-1135), the choice of release and file in         *)
(* BatchModProcessor.create_mod_info_from_api_data (1330-1370) and in      *)
(* BatchModProcessor.process_modpack (1386-1413).  The registry's answer   *)
(* to GET /project/{id}/version is the input.                              *)
(***************************************************************************)
\* the configured environment (mod_manager.config)
ConfigEnv == [minecraft_version |-> "1.20.1", mod_loader |-> "fabric"]

\* most releases in a registry answer, most files attached to a release
MaxVersions == 2
MaxAttached == 2

GameVersionLists == { <<"1.20.1">>, <<"1.19.4">> }
LoaderLists      == { <<"fabric">>, <<"forge">> }

\* the files of a release: each has a name, and may be flagged primary
AttachedFiles == { [k \in 1..Len(flags) |-> [filename |-> k, primary |-> flags[k]]] :
                     flags \in SeqsUpTo(BOOLEAN, MaxAttached) }

\* a registry answer: releases in registry order, the id of a release is its place
RegistryAnswers ==
    { [k \in 1..Len(body) |-> [ id            |-> k,
                                game_versions |-> body[k][1],
                                loaders       |-> body[k][2],
                                files         |-> body[k][3] ]] :
        body \in SeqsUpTo(GameVersionLists \X LoaderLists \X AttachedFiles, MaxVersions) }

\* `x in s` for a Python list s
InList(x, s) == \E k \in 1..Len(s) : s[k] = x

\* the filter of get_mod_versions left out: every release passes
CompatibleVersionsUnfiltered(answer, all_versions, minecraft_version, mod_loader) ==
    IF answer # "ok" THEN <<>> ELSE all_versions

\* the filter loop of get_mod_versions, and [] for a failed request
CompatibleVersions(answer, all_versions, minecraft_version, mod_loader) ==
    LET Compatible(version) == /\ InList(minecraft_version, version.game_versions)
                               /\ InList(mod_loader, version.loaders)
    IN  IF answer # "ok" THEN <<>> ELSE SelectSeq(all_versions, Compatible)

\* get_modpack_versions: the registry's answer as it is, and [] for a failed request
get_modpack_versions(answer, all_versions) ==
    IF answer # "ok" THEN <<>> ELSE all_versions

\* next((f for f in files if f.get("primary")), files[0])
PrimaryFile(files) ==
    IF \E k \in 1..Len(files) : files[k].primary
    THEN files[CHOOSE k \in 1..Len(files) :
                   /\ files[k].primary
                   /\ \A j \in 1..(k - 1) : ~files[j].primary]
    ELSE files[1]

NoPick == [made |-> FALSE, version_id |-> 0, filename |-> 0, why |-> ""]

\* versions[0], its files, the primary file: what both callers do with the
\* list of releases they were given
PickLatest(versions, no_versions, no_files) ==
    IF versions = <<>> THEN [NoPick EXCEPT !.why = no_versions]
    ELSE LET latest_version == versions[1]
         IN  IF latest_version.files = <<>> THEN [NoPick EXCEPT !.why = no_files]
             ELSE [ made       |-> TRUE,
                    version_id |-> latest_version.id,
                    filename   |-> PrimaryFile(latest_version.files).filename,
                    why        |-> "" ]

\* create_mod_info_from_api_data, lines 1333-1346: the release and the file
\* the descriptor is made of
ApiDataPick(answer, all_versions) ==
    PickLatest(CompatibleVersions(answer, all_versions,
                                  ConfigEnv.minecraft_version, ConfigEnv.mod_loader),
               "None", "None")

\* process_modpack, lines 1395-1406: the release and the file whose manifest
\* is downloaded
ModpackPick(answer, all_versions) ==
    PickLatest(get_modpack_versions(answer, all_versions),
               "No versions found for modpack", "No files found in modpack version")

NoSel == [op |-> "none", answer |-> "ok", all_versions |-> <<>>, ret |-> NoPick]

\* create_mod_info_from_api_data runs for a matched project
CreateModInfoFromApiData ==
    /\ sel.op = "none"
    /\ \E answer \in {"ok", "http_error"}, all_versions \in RegistryAnswers :
          /\ answer # "ok" => all_versions = <<>>
          /\ sel' = [ op |-> "create_mod_info_from_api_data", answer |-> answer,
                     all_versions |-> all_versions,
                     ret |-> ApiDataPick(answer, all_versions) ]
    /\ UNCHANGED exceptSel

\* process_modpack runs up to the download of the manifest
ProcessModpack ==
    /\ sel.op = "none"
    /\ \E answer \in {"ok", "http_error"}, all_versions \in RegistryAnswers :
          /\ answer # "ok" => all_versions = <<>>
          /\ sel' = [ op |-> "process_modpack", answer |-> answer,
                     all_versions |-> all_versions,
                     ret |-> ModpackPick(answer, all_versions) ]
    /\ UNCHANGED exceptSel

\* the call is over
SelectionReturns ==
    /\ sel.op # "none"
    /\ sel' = NoSel
    /\ UNCHANGED exceptSel

(***************************************************************************)
(* ModrinthAPI.download_modpack_manifest (src/mcmod/cli.py:1168-1195): the *)
(* response body is saved to a scratch file made by NamedTemporaryFile     *)
(* with delete=False, opened as a zip archive and searched for a manifest. *)
(***************************************************************************)
ManifestUrls == {"https://cdn/pack/1.mrpack", "https://cdn/pack/2.mrpack"}

\* what an entry of the archive may be
ManifestEntryStates == {"absent", "ok", "malformed"}

\* the response bodies: not a zip archive, or an archive with its entries
ManifestBodies ==
    { [zip |-> FALSE, index |-> "absent", manifest |-> "absent", other |-> FALSE] }
    \cup [ zip : {TRUE}, index : ManifestEntryStates, manifest : ManifestEntryStates,
           other : BOOLEAN ]

\* the order in which the manifest names are looked for
ManifestFiles == <<"index", "manifest">>

\* the try block at lines 1181-1188: the manifest returned, "None" when the
\* loop ends without a match, "raise" for BadZipFile or a json.load error
RECURSIVE FindManifest(_, _)
FindManifest(content, n) ==
    IF ~content.zip THEN "raise"
    ELSE IF n > Len(ManifestFiles) THEN "None"
    ELSE LET entry == content[ManifestFiles[n]]
         IN  IF entry = "absent" THEN FindManifest(content, n + 1)
             ELSE IF entry = "ok" THEN ManifestFiles[n]
             ELSE "raise"

\* FileUtils.safe_remove(tmp_path): does the file exist afterwards
safe_remove_skipped(exists) == exists
safe_remove(exists) == FALSE

NoScratch == [pc |-> "idle", url |-> "", content |-> <<>>, exists |-> FALSE,
              written |-> FALSE, outcome |-> "", ret |-> "None"]

\* the GET of the download URL
ManifestRequest ==
    /\ scratch.pc = "idle"
    /\ \E download_url \in ManifestUrls, answer \in {"ok", "http_error", "network_error"},
          content \in ManifestBodies :
          IF answer = "ok"
          THEN scratch' = [NoScratch EXCEPT !.pc = "fetched", !.url = download_url,
                                            !.content = content]
          ELSE /\ content = CHOOSE c \in ManifestBodies : ~c.zip
               /\ scratch' = [NoScratch EXCEPT !.pc = "returned", !.url = download_url,
                                               !.outcome = answer]
    /\ UNCHANGED exceptScratch

\* NamedTemporaryFile(suffix='.zip', delete=False) and tmp.write: the file is
\* made, and the write succeeds or raises (the outer except returns None)
ManifestSave ==
    /\ scratch.pc = "fetched"
    /\ \E write_ok \in BOOLEAN :
          IF write_ok
          THEN scratch' = [scratch EXCEPT !.pc = "saved", !.exists = TRUE, !.written = TRUE]
          ELSE scratch' = [scratch EXCEPT !.pc = "returned", !.exists = TRUE,
                                          !.outcome = "write_error"]
    /\ UNCHANGED exceptScratch

\* the try block: the archive is opened and searched
ManifestParse ==
    /\ scratch.pc = "saved"
    /\ scratch' = [scratch EXCEPT !.pc = "finally",
                                  !.outcome = FindManifest(scratch.content, 1)]
    /\ UNCHANGED exceptScratch

\* the finally clause, then the return (or the outer except and its return)
ManifestCleanup ==
    /\ scratch.pc = "finally"
    /\ scratch' = [scratch EXCEPT !.pc = "returned",
                                  !.exists = safe_remove(scratch.exists),
                                  !.ret = IF scratch.outcome = "raise" THEN "None"
                                          ELSE scratch.outcome]
    /\ UNCHANGED exceptScratch

\* the caller goes on
ManifestExits ==
    /\ scratch.pc = "returned"
    /\ scratch' = NoScratch
    /\ UNCHANGED exceptScratch

(***************************************************************************)
(* The pacing gate: RateLimiter (src/mcmod/cli.py:258-275) as used by the  *)
(* methods of ModrinthAPI (1034-1195).  Time is counted in ticks of half   *)
(* a min_interval; the methods are awaited one after the other, the source *)
(* starts no two registry calls at once.                                   *)
(***************************************************************************)
\* min_interval = 60.0 / calls_per_minute, in ticks
MinInterval == 2

\* the latest time looked at
MaxTime == 9

\* the methods of ModrinthAPI that send a request
Endpoints ==
    { "search_mods", "search_modpacks", "get_mod_by_id", "get_mods_by_ids",
      "get_mod_versions", "get_modpack_details", "get_modpack_versions",
      "download_modpack_manifest" }

\* sleep_time of wait: 0 when the branch at line 271 is not taken
SleepTimeNone(elapsed) == 0
SleepTime(elapsed) == IF elapsed < MinInterval THEN MinInterval - elapsed ELSE 0

\* the limiter after __init__ (last_call = 0), at a time.time() far from 0
NoGate == [pc |-> "idle", endpoint |-> "", now |-> MinInterval, read |-> 0,
           last_call |-> 0, wake |-> 0, previous |-> 0]

\* time passes; a sleeping call may wake late
Tick ==
    /\ gate.now < MaxTime
    /\ gate' = [gate EXCEPT !.now = @ + 1]
    /\ UNCHANGED exceptGate

\* a method of ModrinthAPI is awaited: `await self.rate_limiter.wait()` reads
\* the clock and sleeps if the previous call was too recent
EnterWait ==
    /\ gate.pc = "idle"
    /\ \E endpoint \in Endpoints :
          LET elapsed == gate.now - gate.last_call
          IN  gate' = [gate EXCEPT !.pc = "sleeping", !.endpoint = endpoint,
                                   !.read = gate.now,
                                   !.wake = gate.now + SleepTime(elapsed)]
    /\ UNCHANGED exceptGate

\* asyncio.sleep is over (at once when sleep_time is 0), and
\* self.last_call = time.time(): the call has passed the gate
PassGate ==
    /\ gate.pc = "sleeping"
    /\ gate.now >= gate.wake
    /\ gate' = [gate EXCEPT !.pc = "passed", !.previous = gate.last_call,
                            !.last_call = gate.now]
    /\ UNCHANGED exceptGate

\* self.client.get(...): the request of the method goes out, and the method
\* returns
SendRequest ==
    /\ gate.pc = "passed"
    /\ gate' = [gate EXCEPT !.pc = "idle"]
    /\ UNCHANGED exceptGate

(***************************************************************************)
(* The staging operations on a file that does not read back: the open or   *)
(* json.load of get_staged_mods raises, or one object of the document is   *)
(* not accepted by ModInfo.from_dict (src/mcmod/cli.py:819-830).           *)
(***************************************************************************)
\* an object with a member that is no field of ModInfo
WithUnknownField(obj) == Append(obj, <<"pinned", <<"string", "yes">>>>)

\* the staging files a command may find: saved lists, and saved lists whose
\* last object carries an unknown member
FoundFiles ==
    LET Saved == { save_staged_mods(mods) :
                     mods \in { seq \in SeqsUpTo(Descriptors, MaxWrite) :
                                  \A k \in 1..Len(seq), l \in 1..Len(seq) :
                                      seq[k].id = seq[l].id => k = l } }
        Damaged(file) == [file EXCEPT !.doc[Len(file.doc)] = WithUnknownField(@)]
    IN  Saved \cup { Damaged(file) : file \in { f \in Saved : f.doc # <<>> } }

\* get_staged_mods when the read itself may raise (OSError from open, a
\* decoding error): the except clause prints and returns []
ReadStagedMods(file, read_ok) ==
    IF read_ok THEN get_staged_mods(file) ELSE <<>>

\* add_to_staging in a command of its own
AddAfterRead ==
    /\ lastOp = "none"
    /\ \E read_ok \in BOOLEAN :
          /\ stagingFile.exists \/ read_ok
          /\ before' = ReadStagedMods(stagingFile, read_ok)
    /\ \E mod \in Descriptors : add_to_staging(mod)
    /\ UNCHANGED <<downloadVars, rescanVars, toolVars>>

\* add_mods_to_staging in a command of its own
AddModsAfterRead ==
    /\ lastOp = "none"
    /\ \E read_ok \in BOOLEAN :
          /\ stagingFile.exists \/ read_ok
          /\ before' = ReadStagedMods(stagingFile, read_ok)
    /\ \E mods \in SeqsUpTo(Descriptors, MaxWrite) : add_mods_to_staging(mods)
    /\ UNCHANGED <<downloadVars, rescanVars, toolVars>>

(***************************************************************************)
(* Retries of one download_file call (src/qwikee.py:394-468) against a     *)
(* remote that serves the right content and answers a Range header per     *)
(* HTTP: 206 with the rest of the file, 416 when the range starts at or    *)
(* past the end.  No transfer is interrupted.                              *)
(***************************************************************************)
\* the artifact that is retried
RetryUrl == "u1"

\* a transfer of the artifact that arrived damaged
Damaged(data) == [k \in 1..Len(data) |-> IF k = 1 THEN 0 ELSE data[k]]

\* what an earlier attempt may have left at the temp path: nothing, a part
\* or the whole of the artifact, or the bytes of a whole transfer that failed
\* its size or hash check
LeftTemps ==
    { NoData }
    \cup { FileOf(SubSeq(Source(RetryUrl), 1, n)) : n \in 0..Len(Source(RetryUrl)) }
    \cup { FileOf(Damaged(Source(RetryUrl))), FileOf(Source(RetryUrl) \o Source(RetryUrl)) }

\* the same call again, as long as the last one did not succeed
RetryDownload ==
    /\ result.ret # "ok"
    /\ DownloadStart(call.url, call.esize, call.ehash)
    /\ UNCHANGED <<stagingVars, rescanVars, toolVars>>

\* the remote answers per HTTP: the range, or the whole file without one
RespondPerHttp ==
    /\ Respond(TRUE)
    /\ UNCHANGED <<stagingVars, rescanVars, toolVars>>

\* 416 Range Not Satisfiable: raise_for_status raises, False is returned
RangeNotSatisfiable ==
    /\ call.range >= Len(Source(call.url))
    /\ RequestFails
    /\ UNCHANGED <<stagingVars, rescanVars, toolVars>>

(***************************************************************************)
(* The update check: update_async (src/mcmod/cli.py:2167-2215) and         *)
(* ModrinthAPI.check_mod_updates (1197-1246) on the records that the       *)
(* scanning loop of get_installed_mods builds with ModParser.  The         *)
(* registry's newest compatible release of a mod is "r2" when the mod has  *)
(* a newer release than the installed "r1", and "r1" otherwise.            *)
(***************************************************************************)
\* the listings of the mod directory: files that exist, each name once
Listings ==
    { files \in SeqsUpTo({ archive \in Archives : archive.statable }, MaxFiles) :
        \A k \in 1..Len(files), l \in 1..Len(files) :
            files[k].name = files[l].name => k = l }

\* versions[0]["id"] of get_mod_versions for the project of this record
LatestVersionId(installed_mod, newer) ==
    IF installed_mod.filename \in newer THEN "r2" ELSE "r1"

\* mod_ids = [mod.mod_id for mod in installed_mods if mod.version_id]
HasVersionId(mod) == mod.version_id # ""

\* the loop of check_mod_updates over the records that have a version id
RECURSIVE UpdatesOf(_, _, _)
UpdatesOf(checked, installed_mods, newer) ==
    IF checked = <<>> THEN <<>>
    ELSE LET mod_id == Head(checked).mod_id
             installed_mod ==
                 installed_mods[CHOOSE k \in 1..Len(installed_mods) :
                     /\ installed_mods[k].mod_id = mod_id
                     /\ \A j \in 1..(k - 1) : installed_mods[j].mod_id # mod_id]
             latest == LatestVersionId(installed_mod, newer)
         IN  (IF installed_mod.version_id # latest
              THEN << [item_id |-> mod_id, current_version |-> installed_mod.version,
                       new_version |-> latest] >>
              ELSE <<>>)
             \o UpdatesOf(Tail(checked), installed_mods, newer)

check_mod_updates(installed_mods, newer) ==
    UpdatesOf(SelectSeq(installed_mods, HasVersionId), installed_mods, newer)

\* what update_async prints for the list of updates
UpdateMessage(installed_mods, updates) ==
    IF installed_mods = <<>> THEN "No installed mods found"
    ELSE IF updates = <<>> THEN "All mods are up to date!"
    ELSE "Found updates available"

NoUpd == [op |-> "none", files |-> <<>>, newer |-> {}, installed |-> <<>>,
          updates |-> <<>>, message |-> "", ended |-> ""]

\* update_async: the rescan, then the check
UpdateAsync ==
    /\ upd.op = "none"
    /\ \E dir_ok \in BOOLEAN, files \in Listings :
       \E newer \in SUBSET { files[k].name : k \in 1..Len(files) },
          listed \in CallList(files) :
          /\ ~dir_ok => files = <<>>
          /\ IF ~dir_ok
             THEN upd' = [NoUpd EXCEPT !.op = "update_async", !.ended = "returned",
                                       !.message = UpdateMessage(<<>>, <<>>)]
             ELSE IF listed # "returns"
             THEN \* get_installed_mods does not return: a TypeError is printed by
                  \* the except clause, SystemExit ends the command
                  upd' = [NoUpd EXCEPT !.op = "update_async", !.files = files,
                                       !.newer = newer, !.ended = listed,
                                       !.message = IF listed = "TypeError"
                                                   THEN "Error checking for updates"
                                                   ELSE ""]
             ELSE LET installed_mods == ScanFiles(files)
                      updates == check_mod_updates(installed_mods, newer)
                  IN  upd' = [ op |-> "update_async", files |-> files, newer |-> newer,
                               installed |-> installed_mods, updates |-> updates,
                               message |-> UpdateMessage(installed_mods, updates),
                               ended |-> "returned" ]
    /\ UNCHANGED exceptUpd

\* check_mod_updates on the records the scanning loop builds for a listing,
\* and what update_async goes on to print
CheckModUpdates ==
    /\ upd.op = "none"
    /\ \E files \in Listings :
       \E newer \in SUBSET { files[k].name : k \in 1..Len(files) } :
          LET installed_mods == ScanFiles(files)
              updates == check_mod_updates(installed_mods, newer)
          IN  /\ files # <<>>
              /\ upd' = [ op |-> "check_mod_updates", files |-> files, newer |-> newer,
                          installed |-> installed_mods, updates |-> updates,
                          message |-> UpdateMessage(installed_mods, updates),
                          ended |-> "returned" ]
    /\ UNCHANGED exceptUpd

\* the command is over
UpdateExits ==
    /\ upd.op # "none"
    /\ upd' = NoUpd
    /\ UNCHANGED exceptUpd

(***************************************************************************)
(* The settings of qwikee: QwikeeConfig (src/qwikee.py:80-132) and the     *)
(* config command (639-661).  stored is the content of config.json, with   *)
(* the keys the command writes; an option that is not given on the command *)
(* line reaches the function as None (api_key, mods_path) or as the        *)
(* default click fills in (auto_backup, timeout, max_downloads); given is  *)
(* the set of options of the last call.                                    *)
(***************************************************************************)
AutoBackupDefault == TRUE
TimeoutDefault == 30
MaxDownloadsDefault == 3

default_config ==
    [ api_key |-> "", default_mods_path |-> "", auto_backup |-> AutoBackupDefault,
      max_concurrent_downloads |-> MaxDownloadsDefault, timeout |-> TimeoutDefault ]

\* the options of the command
ConfigOptions == {"--api-key", "--mods-path", "--auto-backup", "--timeout", "--max-downloads"}

\* the calls of config(): options is the set of options on the command line,
\* and an option that is absent has the value click passes for it, None for
\* the two strings and the declared default for the other three
ConfigCalls ==
    { args \in [ options : SUBSET ConfigOptions,
                 api_key : {"None", "key1"}, mods_path : {"None", "path1"},
                 auto_backup : BOOLEAN,
                 timeout : {TimeoutDefault, 2 * TimeoutDefault},
                 max_downloads : {MaxDownloadsDefault, MaxDownloadsDefault + 2} ] :
        /\ "--api-key" \in args.options <=> args.api_key # "None"
        /\ "--mods-path" \in args.options <=> args.mods_path # "None"
        /\ "--auto-backup" \notin args.options => args.auto_backup = AutoBackupDefault
        /\ "--timeout" \notin args.options => args.timeout = TimeoutDefault
        /\ "--max-downloads" \notin args.options
               => args.max_downloads = MaxDownloadsDefault }

\* the sets of config(), each followed by save_config
ConfigSets(config, args) ==
    [ api_key |-> IF args.api_key # "None" THEN args.api_key ELSE config.api_key,
      default_mods_path |-> IF args.mods_path # "None" THEN args.mods_path
                            ELSE config.default_mods_path,
      auto_backup |-> args.auto_backup,
      timeout |-> args.timeout,
      max_concurrent_downloads |-> args.max_downloads ]

NoConf == [stored |-> default_config, op |-> "none",
           given |-> {},
           before |-> default_config]

\* qwikee config: load_config, then the sets; when config.json cannot be
\* written save_config logs the error and the file stays as it was
Config ==
    /\ conf.op = "none"
    /\ \E args \in ConfigCalls, writable \in BOOLEAN :
          conf' = [ stored |-> IF writable
                               THEN ConfigSets(conf.stored, args)
                               ELSE conf.stored,
                    op |-> IF writable THEN "config" ELSE "config unsaved",
                    given |-> args.options,
                    before |-> conf.stored ]
    /\ UNCHANGED exceptConf

\* the command is over
ConfigExits ==
    /\ conf.op # "none"
    /\ conf' = [NoConf EXCEPT !.stored = conf.stored, !.before = conf.stored]
    /\ UNCHANGED exceptConf

(***************************************************************************)
(* Specifications.                                                         *)
(***************************************************************************)
StagingInit ==
    /\ stagingFile = NoFile
    /\ lastOp = "none"
    /\ lastMods = <<>>
    /\ lastId = ""
    /\ lastRet = NoRet
    /\ before = <<>>

DownloadInit ==
    /\ dest = NoData
    /\ temp = NoData
    /\ pc = "idle"
    /\ call = NoCall
    /\ resp = NoResp
    /\ result = NoResult
    /\ hist = NoHist

RescanInit ==
    /\ modDir = [exists |-> FALSE, readable |-> TRUE, files |-> <<>>]
    /\ snapshot = NoSnapshot
    /\ scan = NoScan

ParseInit == parsed = NoParsed

ExpandInit == expand = NoExpand

ResolveInit == batch = NoBatch

InstallInit == site = NoSite /\ inst = NoInst

PersistInit == writer = NoWriter

ServiceInit == sel = NoSel /\ scratch = NoScratch /\ gate = NoGate /\ upd = NoUpd /\ conf = NoConf

CoreInit == /\ StagingInit /\ DownloadInit /\ RescanInit
            /\ ParseInit /\ ExpandInit /\ ResolveInit /\ InstallInit /\ PersistInit

ToolsInit == ParseInit /\ ExpandInit /\ ResolveInit /\ InstallInit /\ PersistInit /\ ServiceInit

Init == StagingInit /\ DownloadInit /\ RescanInit /\ ToolsInit

Next == AddToStaging \/ AddModsToStaging \/ RemoveFromStaging \/ ClearStaging \/ CommandExits

Spec == Init /\ [][Next]_vars

NextDownload ==
    \/ StartDownload
    \/ RequestFailure
    \/ ResponseArrives
    \/ ChunkWritten
    \/ Interrupted
    \/ VerifyAndRename
    \/ InstallStaged

SpecDownload == Init /\ [][NextDownload]_vars

NextRescan == Rescan \/ WriteFile \/ Uninstall \/ Clean \/ Chmod

SpecRescan == Init /\ [][NextRescan]_vars

\* the round trip of the staging file on its own: any list is saved, then loaded
InitRoundTrip ==
    /\ stagingFile = NoFile
    /\ lastOp = "input"
    /\ lastMods \in Batches
    /\ lastId = ""
    /\ lastRet = NoRet
    /\ before = <<>>
    /\ DownloadInit /\ RescanInit /\ ToolsInit

SaveStaged ==
    /\ lastOp = "input"
    /\ stagingFile' = save_staged_mods(lastMods)
    /\ lastOp' = "saved"
    /\ UNCHANGED <<lastMods, lastId, lastRet, before, downloadVars, rescanVars, toolVars>>

LoadStaged ==
    /\ lastOp = "saved"
    /\ before' = get_staged_mods(stagingFile)
    /\ lastOp' = "loaded"
    /\ UNCHANGED <<stagingFile, lastMods, lastId, lastRet, downloadVars, rescanVars, toolVars>>

NextRoundTrip == SaveStaged \/ LoadStaged

SpecRoundTrip == InitRoundTrip /\ [][NextRoundTrip]_vars

\* the extractor on its own: any file is parsed once
InitParse ==
    /\ StagingInit /\ DownloadInit /\ RescanInit /\ ExpandInit /\ ResolveInit /\ InstallInit /\ PersistInit /\ ServiceInit
    /\ \E archive \in ParseInputs : parsed = [NoParsed EXCEPT !.archive = archive]

NextParse == ParseModFile

SpecParse == InitParse /\ [][NextParse]_vars

\* list expansion on its own: any list file is expanded once by either tool
InitExpand ==
    /\ StagingInit /\ DownloadInit /\ RescanInit /\ ParseInit /\ ResolveInit /\ InstallInit /\ PersistInit /\ ServiceInit
    /\ \E lines \in SeqsUpTo(FileLines, MaxLines) : expand = [NoExpand EXCEPT !.lines = lines]

NextExpand == ProcessModListFile \/ ParseModlist

SpecExpand == InitExpand /\ [][NextExpand]_vars

\* the resolver loop on its own
NextResolve == StartBatch \/ ProcessModName \/ ReturnBatch

SpecResolve == Init /\ [][NextResolve]_vars

\* the install batches: any target directory, configuration and staged set
InitInstall ==
    /\ lastOp = "none" /\ lastMods = <<>> /\ lastId = "" /\ lastRet = NoRet /\ before = <<>>
    /\ DownloadInit /\ RescanInit /\ ParseInit /\ ExpandInit /\ ResolveInit /\ PersistInit /\ ServiceInit
    /\ \E staged \in { mods \in SeqsUpTo(InstallMods, MaxInstall) :
                          \A k \in 1..Len(mods), l \in 1..Len(mods) :
                              mods[k].id = mods[l].id => k = l } :
          stagingFile = save_staged_mods(staged)
    /\ \E dir \in [InstallFiles -> {"absent", "old"}], readable \in BOOLEAN,
          auto_backup \in BOOLEAN, backup_enabled \in BOOLEAN :
          site = [dir |-> dir, readable |-> readable, auto_backup |-> auto_backup,
                  backup_enabled |-> backup_enabled]
    /\ inst = NoInst

NextInstall ==
    \/ QwikeeInstall
    \/ QwikeeInstallMod
    \/ QwikeeReturn
    \/ InstallStagedStart
    \/ InstallStagedNext
    \/ InstallStagedSummary
    \/ InstallExits

SpecInstall == InitInstall /\ [][NextInstall]_vars

\* the staging file written step by step
NextPersist ==
    \/ OpenStagingFile
    \/ WriteObject
    \/ CloseStagingFile
    \/ WriteInterrupted
    \/ WriterExits

SpecPersist == Init /\ [][NextPersist]_vars

\* release selection
NextSelect == CreateModInfoFromApiData \/ ProcessModpack \/ SelectionReturns

SpecSelect == Init /\ [][NextSelect]_vars

\* the download of a modpack manifest
NextManifest ==
    \/ ManifestRequest
    \/ ManifestSave
    \/ ManifestParse
    \/ ManifestCleanup
    \/ ManifestExits

SpecManifest == Init /\ [][NextManifest]_vars

\* the pacing gate
NextGate == Tick \/ EnterWait \/ PassGate \/ SendRequest

SpecGate == Init /\ [][NextGate]_vars

\* adds to a staging file that may not read back
InitFound ==
    /\ stagingFile \in FoundFiles
    /\ lastOp = "none" /\ lastMods = <<>> /\ lastId = "" /\ lastRet = NoRet /\ before = <<>>
    /\ DownloadInit /\ RescanInit /\ ToolsInit

NextFound == AddAfterRead \/ AddModsAfterRead \/ CommandExits

SpecFound == InitFound /\ [][NextFound]_vars

\* retries of one download against a well-behaved remote
InitRetry ==
    /\ StagingInit /\ RescanInit /\ ToolsInit
    /\ dest = NoData
    /\ temp \in LeftTemps
    /\ pc = "idle"
    /\ \E expected_size \in {0, Len(Source(RetryUrl))},
          expected_hash \in {NoHash, Sha1(Source(RetryUrl))} :
          /\ call = [url |-> RetryUrl, esize |-> expected_size, ehash |-> expected_hash,
                     range |-> -1]
          /\ \/ ~temp.exists
             \/ \E n \in 0..Len(Source(RetryUrl)) : temp.data = SubSeq(Source(RetryUrl), 1, n)
             \/ VerifyOutcome(temp.data, expected_size, expected_hash) # "ok"
    /\ resp = NoResp
    /\ result = NoResult
    /\ hist = NoHist

NextRetry ==
    \/ RetryDownload
    \/ RespondPerHttp
    \/ RangeNotSatisfiable
    \/ ChunkWritten
    \/ VerifyAndRename

\* every call runs to its end and the caller keeps retrying
SpecRetry == InitRetry /\ [][NextRetry]_vars /\ WF_vars(NextRetry)

\* the update check
NextUpdate == UpdateAsync \/ CheckModUpdates \/ UpdateExits

SpecUpdate == Init /\ [][NextUpdate]_vars

\* the settings of qwikee
NextConfig == Config \/ ConfigExits

SpecConfig == Init /\ [][NextConfig]_vars

(***************************************************************************)
(* Properties of the Staging Set (checked under Spec).                     *)
(***************************************************************************)
\* the ids of the persisted staging list, read from the JSON document itself
PersistedIds == [i \in 1..Len(stagingFile.doc) |-> JsonObjectToDict(stagingFile.doc[i]).id]

\* C1: after any sequence of add_to_staging, add_mods_to_staging,
\* remove_from_staging and clear_staging calls from an empty staging file, no two
\* entries of the persisted staging list have the same id.
StagingIdsUnique ==
    \A i, j \in 1..Len(PersistedIds) : i # j => PersistedIds[i] # PersistedIds[j]

\* C1 witness: a batch with duplicates was added and three distinct ids are persisted
StagingIdsUniqueWitness ==
    /\ lastOp = "add_mods_to_staging"
    /\ lastRet.added > 0
    /\ lastRet.skipped > 0
    /\ Len(stagingFile.doc) = Cardinality(ModIds)

\* C2: add_to_staging of a descriptor whose id is already staged returns False
\* and leaves the persisted list unchanged, with exactly one entry for that id (the
\* one staged first); of a descriptor whose id is new it returns True and appends it.
AddIdempotent ==
    lastOp = "add_to_staging" =>
        LET mod == lastMods[1]
        IN  IF mod.id \in StagedIds(before)
            THEN /\ lastRet.ok = FALSE
                 /\ stagingFile = save_staged_mods(before)
                 /\ get_staged_mods(stagingFile) = before
                 /\ Cardinality({i \in 1..Len(before) : before[i].id = mod.id}) = 1
            ELSE /\ lastRet.ok = TRUE
                 /\ get_staged_mods(stagingFile) = Append(before, mod)

\* C2 witness: the second add carries another release of an id staged before
AddIdempotentWitness ==
    /\ lastOp = "add_to_staging"
    /\ lastRet.ok = FALSE
    /\ \E i \in 1..Len(before) : before[i].id = lastMods[1].id /\ before[i] # lastMods[1]
    /\ get_staged_mods(stagingFile) = before

\* the items of L at the indices in I, in index order, from index n down
RECURSIVE ItemsAt(_, _, _)
ItemsAt(L, I, n) ==
    IF n = 0 THEN <<>>
    ELSE IF n \in I THEN Append(ItemsAt(L, I, n - 1), L[n])
         ELSE ItemsAt(L, I, n - 1)

\* the first occurrence in L of each id that is not in S, in input order
FirstNew(L, S) ==
    ItemsAt(L, { i \in 1..Len(L) : /\ L[i].id \notin S
                                   /\ \A j \in 1..(i - 1) : L[j].id # L[i].id }, Len(L))

\* C3: add_mods_to_staging(L) on a staged set S returns (added, duplicate) with
\* added = number of distinct ids of L not in S and duplicate = len(L) - added, and
\* appends exactly the first occurrence of each new id, in input order.
BatchAddCounts ==
    lastOp = "add_mods_to_staging" =>
        LET S == StagedIds(before)
            newIds == StagedIds(lastMods) \ S
        IN  /\ lastRet.added = Cardinality(newIds)
            /\ lastRet.skipped = Len(lastMods) - lastRet.added
            /\ get_staged_mods(stagingFile) = before \o FirstNew(lastMods, S)

\* C3 witness: a batch holding three times an id that is already staged returns (0, 3)
BatchAddCountsWitness ==
    /\ lastOp = "add_mods_to_staging"
    /\ Len(lastMods) = 3
    /\ \A i \in 1..3 : lastMods[i].id = lastMods[1].id
    /\ lastMods[1] # lastMods[2]
    /\ lastMods[1].id \in StagedIds(before)
    /\ lastRet.added = 0
    /\ lastRet.skipped = 3

\* C4 (under SpecRoundTrip): for every list of descriptors, save_staged_mods
\* followed by get_staged_mods returns the same descriptors in the same order with
\* every field equal.
StagingRoundTrip ==
    lastOp = "loaded" =>
        /\ Len(before) = Len(lastMods)
        /\ \A i \in 1..Len(lastMods) :
              \A f \in Range(ModInfoFields) : before[i][f] = lastMods[i][f]

\* C4 witness: a list of MaxBatch descriptors, with a repeated id, was saved and loaded
StagingRoundTripWitness ==
    /\ lastOp = "loaded"
    /\ Len(lastMods) = MaxBatch
    /\ lastMods[1].id = lastMods[2].id
    /\ lastMods[1] # lastMods[2]
    /\ before = lastMods

(***************************************************************************)
(* Properties of the download engine (checked under SpecDownload).         *)
(***************************************************************************)
\* the expectations handed to the call describe what the remote serves
ExpectationsMatchSource ==
    /\ SizeKnown(call.esize) => call.esize = Len(Source(call.url))
    /\ HashKnown(call.ehash) => call.ehash = Sha1(Source(call.url))

\* C5: when a download_file transfer of an M-byte source was interrupted after N
\* bytes (0 < N < M) were written to the temp file, the next download_file call for
\* it requests the byte range starting at N; whether the remote answers 206 or a
\* full 200, the temp file plus the bytes still to come are the source, and the
\* completed call leaves exactly the M source bytes at the destination.
ResumeCorrect ==
    (result.op = "download_file" /\ hist.resume) =>
        /\ result.why # "exists"
        /\ call.range = Len(hist.tempAtStart.data)
        /\ call.range > 0
        /\ pc = "transfer" => temp.data \o resp.body = Source(call.url)
        /\ (pc = "transfer" /\ resp.status = 200) =>
              Len(temp.data) + Len(resp.body) = Len(Source(call.url))
        /\ pc = "verify" => temp.data = Source(call.url)
        /\ (pc = "idle" /\ hist.completed) =>
              IF ExpectationsMatchSource
              THEN /\ result.ret = "ok"
                   /\ dest = FileOf(Source(call.url))
              ELSE result.ret = "fail"

\* C5 witness: an interrupted transfer was resumed with a 206 and installed
ResumeCorrectWitness ==
    /\ result.op = "download_file"
    /\ hist.resume
    /\ resp.status = 206
    /\ result.why = "renamed"
    /\ dest = FileOf(Source(call.url))

\* the transfer of the last call completed and its bytes do not have the hash the
\* caller expects (the size, when one is expected, is right)
HashMismatched ==
    /\ result.op \in {"download_file", "install_staged_mods"}
    /\ hist.completed
    /\ HashKnown(call.ehash)
    /\ SizeKnown(call.esize) => Len(hist.bytes) = call.esize
    /\ call.ehash # (IF result.op = "download_file" THEN Sha1(hist.bytes) ELSE Sha256(hist.bytes))

RenameOnlyAfterChecks ==
    [][ result'.op = "download_file" =>
          /\ dest' # dest =>
                /\ pc = "verify"
                /\ resp.body = <<>>
                /\ temp.exists
                /\ dest' = FileOf(temp.data)
                /\ ~temp'.exists
                /\ SizeKnown(call.esize) => Len(temp.data) = call.esize
                /\ HashKnown(call.ehash) => Sha1(temp.data) = call.ehash
          /\ result'.ret = "fail" => dest' = hist'.destAtStart ]_vars

\* C7 witness: a checked temp file replaced an older file at the destination
RenameOnlyAfterChecksWitness ==
    /\ result.op = "download_file"
    /\ result.why = "renamed"
    /\ SizeKnown(call.esize)
    /\ HashKnown(call.ehash)
    /\ hist.destAtStart.exists
    /\ dest # hist.destAtStart

\* C8 as claimed: when an expected size is known and the temp file's size after the
\* transfer differs from it, download_file returns failure and the temp file no
\* longer exists.
SizeMismatchDiscardsTemp ==
    ( /\ result.op = "download_file"
      /\ hist.completed
      /\ SizeKnown(call.esize)
      /\ Len(hist.bytes) # call.esize ) =>
        /\ result.ret = "fail"
        /\ ~temp.exists

\* the destination satisfied the call when it started
SatisfiedAtStart ==
    /\ result.op = "download_file"
    /\ hist.destAtStart.exists
    /\ SizeKnown(call.esize)
    /\ Len(hist.destAtStart.data) = call.esize
    /\ HashKnown(call.ehash) => Sha1(hist.destAtStart.data) = call.ehash

\* C9: when the destination holds a file of the expected size and, if a hash is
\* expected, of that hash, download_file returns success without a network request
\* and without touching the destination or the temp file.
AlreadySatisfiedNoNetwork ==
    SatisfiedAtStart =>
        /\ pc = "idle"
        /\ result.ret = "ok"
        /\ result.why = "exists"
        /\ ~hist.requested
        /\ dest = hist.destAtStart
        /\ temp = hist.tempAtStart

\* C9 witness: a satisfied call that found a partial temp file and left it alone
AlreadySatisfiedNoNetworkWitness ==
    /\ SatisfiedAtStart
    /\ ~HashKnown(call.ehash)
    /\ temp.exists
    /\ Len(temp.data) > 0
    /\ result.ret = "ok"

(***************************************************************************)
(* Properties of the rescan (checked under SpecRescan).                    *)
(***************************************************************************)
\* C10 as claimed: after every get_installed_mods call on an existing, readable
\* mod directory the persisted installed-mods snapshot equals the list just
\* scanned, also when the scan finds no archive file.
RescanReplacesSnapshot ==
    (scan.op = "get_installed_mods" /\ scan.dirOk) =>
        get_installed_mods_record(snapshot) = ScanFiles(modDir.files)

\* C11 as claimed: after two get_installed_mods calls in a row on an unchanged,
\* existing and readable mod directory, the second call left the persisted
\* snapshot as the first wrote it, and that snapshot holds exactly one record
\* per archive file of the directory, in the directory's order.
RescanIdempotent ==
    (scan.op = "get_installed_mods" /\ scan.dirOk /\ scan.runs = 2) =>
        /\ snapshot.exists
        /\ snapshot = scan.prior
        /\ Len(snapshot.doc) = Len(modDir.files)
        /\ \A i \in 1..Len(modDir.files) : snapshot.doc[i].filename = modDir.files[i].name

(***************************************************************************)
(* Properties of the extractor (checked under SpecParse).                  *)
(***************************************************************************)
\* the formats of the archive that hold a parsable descriptor, in FormatOrder
ParsableFormats(archive) ==
    { n \in 1..Len(FormatOrder) : archive[FormatOrder[n]] = "ok" }

FirstParsable(archive) ==
    CHOOSE n \in ParsableFormats(archive) : \A m \in ParsableFormats(archive) : n <= m

\* C12 as claimed: for a readable archive in which at least one descriptor
\* parses, parse_mod_file returns the record built from the first parsable
\* descriptor in the order fabric.mod.json, META-INF/mods.toml, mcmod.info;
\* with both fabric.mod.json and mcmod.info parsable the fabric fields win.
ExtractorPriority ==
    LET archive == parsed.archive
    IN  (/\ parsed.kind # "none"
         /\ archive.opens /\ archive.statable
         /\ \A n \in 1..Len(FormatOrder) : archive[FormatOrder[n]] \in {"ok", "absent", "malformed"}
         /\ ParsableFormats(archive) # {}) =>
            /\ parsed.kind = "mod"
            /\ parsed.mod = FormatRecord(archive, FormatOrder[FirstParsable(archive)])

\* C13 as claimed: whatever file parse_mod_file is handed, it returns a
\* record and raises no exception.
ExtractorNeverFails ==
    parsed.kind # "none" => parsed.kind = "mod"

(***************************************************************************)
(* Properties of the list expansion (checked under SpecExpand).            *)
(***************************************************************************)
\* the texts of the lines that are neither blank nor, once stripped, comments
RECURSIVE RemainingTexts(_)
RemainingTexts(lines) ==
    IF lines = <<>> THEN <<>>
    ELSE LET line == strip(Head(lines))
         IN  (IF line # <<>> /\ ~StartsWithHash(line[1]) THEN <<line[1]>> ELSE <<>>)
             \o RemainingTexts(Tail(lines))

\* the line an entry was made from: a reference is the text itself
EntryText(entry) == IF expand.op = "process_mod_list_file" THEN entry ELSE entry.url

\* C14 as claimed: in both expansions blank lines and '#' lines give nothing,
\* silently, and every other line gives exactly one entry, in input order.
ExpansionOneEntryPerLine ==
    expand.op # "none" =>
        /\ Len(expand.entries) = Len(RemainingTexts(expand.lines))
        /\ \A n \in 1..Len(expand.entries) :
               EntryText(expand.entries[n]) = RemainingTexts(expand.lines)[n]
        /\ expand.warned = {}

(***************************************************************************)
(* Properties of the resolver loop (checked under SpecResolve).            *)
(***************************************************************************)
\* the processed references that resolved, and those that did not
ResolvedAt == { k \in 1..batch.i : batch.cause[k] = "resolved" }
UnresolvedAt == { k \in 1..batch.i : batch.cause[k] # "resolved" }

FoundIds == [k \in 1..Len(batch.found) |-> batch.found[k].id]

\* C15: process_mod_names takes the references one by one in input order;
\* after each, every reference processed so far is in exactly one of found
\* (if it resolved) and failed (whatever made it fail: not found, HTTP error,
\* network error, exception), both in input order, so that
\* len(found) + len(failed) is the number processed; it returns only when
\* every reference of the input has been processed.
BatchNeverAborts ==
    /\ batch.i = Len(batch.cause)
    /\ batch.i <= Len(batch.names)
    /\ Len(batch.found) + Len(batch.failed) = batch.i
    /\ FoundIds = ItemsAt(batch.names, ResolvedAt, batch.i)
    /\ batch.failed = ItemsAt(batch.names, UnresolvedAt, batch.i)
    /\ batch.op = "returned" =>
           /\ batch.i = Len(batch.names)
           /\ Len(batch.found) + Len(batch.failed) = Len(batch.names)

\* a returned batch in which a reference that ended in the except clause is
\* followed by one that resolved
BatchNeverAbortsWitness ==
    /\ batch.op = "returned"
    /\ \E k \in 1..Len(batch.names), l \in 1..Len(batch.names) :
          /\ k < l
          /\ batch.cause[k] = "exception"
          /\ batch.cause[l] = "resolved"
    /\ Len(batch.found) = 1
    /\ Len(batch.failed) = Len(batch.names) - 1

\* what the caller of process_mod_names gets to know about the k-th
\* reference: the list it is in and the lines printed while it was processed
Reported(k) ==
    [ failed |-> k \in UnresolvedAt, log |-> batch.log[k] ]

\* C16 as claimed: a reference whose project exists but has no release
\* compatible with the configured game version and loader is reported
\* differently from a reference that matches no project.
IncompatibleDistinguished ==
    \A k \in 1..batch.i, l \in 1..batch.i :
        (batch.cause[k] = "incompatible" /\ batch.cause[l] = "absent") =>
            Reported(k) # Reported(l)

(***************************************************************************)
(* Properties of the install batches (checked under SpecInstall).          *)
(***************************************************************************)
\* the backup setting that governs the running batch
BackupsEnabled ==
    IF inst.op = "install_mods" THEN site.auto_backup ELSE site.backup_enabled

\* C17 as claimed: in both install batches, when backups are enabled and the
\* target directory held files when the batch started, a backup holding those
\* files as they were has been made by the time the batch has created or
\* overwritten any file of the directory.
BackupBeforeInstall ==
    (inst.op # "none" /\ BackupsEnabled /\ DirHasEntries(inst.atStart) /\ inst.wrote # {}) =>
        (inst.backup.made /\ inst.backup.copy = inst.atStart)

\* C18 as claimed: an install run with --no-backup makes no backup, whatever
\* the stored auto_backup setting.
NoBackupOptionHonoured ==
    (inst.op = "install_mods" /\ ~inst.backup_option) => ~inst.backup.made

(***************************************************************************)
(* Properties of the staging write (checked under SpecPersist).            *)
(***************************************************************************)
\* C19 as claimed: at every point of a mutating staging operation, also when
\* it is interrupted during the write, the staged list read back from the
\* staging file is either the complete previous set or the complete new set.
StagingWriteAtomic ==
    writer.op # "none" =>
        get_staged_mods(stagingFile) \in {writer.old, writer.new}

(***************************************************************************)
(* Properties of the clearing of the staging set (checked under            *)
(* SpecInstall).                                                           *)
(***************************************************************************)
\* C20 as claimed: when install_staged_mods is over, the staging set was
\* cleared only if no staged mod failed to install and the user confirmed;
\* in every other case the staging set is the one the command started with.
ClearOnlyAfterFullSuccess ==
    (inst.op = "install_staged_mods" /\ inst.pc = "done") =>
        IF inst.cleared
        THEN inst.failed = 0 /\ inst.confirmed = "yes"
        ELSE get_staged_mods(stagingFile) = inst.staged

(***************************************************************************)
(* Properties of the release selection (checked under SpecSelect).         *)
(***************************************************************************)
\* does release k of the answer match the configured environment
MatchesEnv(k) ==
    /\ sel.answer = "ok"
    /\ k \in 1..Len(sel.all_versions)
    /\ InList(ConfigEnv.minecraft_version, sel.all_versions[k].game_versions)
    /\ InList(ConfigEnv.mod_loader, sel.all_versions[k].loaders)

\* the first release of the answer that matches, 0 when there is none
FirstMatching ==
    IF \E k \in 1..Len(sel.all_versions) : MatchesEnv(k)
    THEN CHOOSE k \in 1..Len(sel.all_versions) :
             MatchesEnv(k) /\ \A j \in 1..(k - 1) : ~MatchesEnv(j)
    ELSE 0

\* the file the claim names within release k: the one flagged primary (the
\* first such), otherwise the first
PreferredFile(k) ==
    LET files == sel.all_versions[k].files
        flagged == { j \in 1..Len(files) : files[j].primary }
    IN  IF flagged = {} THEN 1 ELSE CHOOSE j \in flagged : \A i \in flagged : j <= i

\* C21: create_mod_info_from_api_data makes its descriptor of the first
\* release, in registry order, whose game versions contain the configured
\* game version and whose loaders contain the configured loader, and of that
\* release's primary file if one is flagged, otherwise its first file; when no
\* release matches both, no descriptor is made.
ReleaseSelection ==
    sel.op = "create_mod_info_from_api_data" =>
        /\ FirstMatching = 0 => ~sel.ret.made
        /\ sel.ret.made =>
              /\ FirstMatching # 0
              /\ sel.ret.version_id = sel.all_versions[FirstMatching].id
              /\ sel.ret.filename = PreferredFile(FirstMatching)
        /\ (FirstMatching # 0 /\ sel.all_versions[FirstMatching].files # <<>>) => sel.ret.made

\* a second release is selected over an incompatible first one, and its
\* second file, the flagged one, is taken
ReleaseSelectionWitness ==
    /\ sel.op = "create_mod_info_from_api_data"
    /\ sel.ret.made
    /\ sel.ret.version_id = 2
    /\ sel.ret.filename = 2
    /\ ~MatchesEnv(1)

\* C23 as claimed: the release whose manifest process_modpack downloads is
\* the first release of the pack that matches the configured game version and
\* loader, never a release that does not match them.
ModpackCompatibleRelease ==
    (sel.op = "process_modpack" /\ sel.ret.made) =>
        /\ MatchesEnv(sel.ret.version_id)
        /\ sel.ret.version_id = sel.all_versions[FirstMatching].id

(***************************************************************************)
(* Independence of the extractor's attempts (checked under SpecParse).     *)
(***************************************************************************)
\* C22 as claimed: when the fabric.mod.json entry of a readable archive is
\* present but does not parse, whatever the reason, parse_mod_file goes on to
\* META-INF/mods.toml and mcmod.info and returns the record of the first of
\* them that parses; the filename fallback is returned only when no format
\* parses.
AttemptsIndependent ==
    LET archive == parsed.archive
    IN  (/\ parsed.kind # "none"
         /\ archive.opens /\ archive.statable
         /\ archive.fabric \in {"malformed", "raises"}) =>
            /\ parsed.kind = "mod"
            /\ parsed.mod = IF ParsableFormats(archive) # {}
                            THEN FormatRecord(archive, FormatOrder[FirstParsable(archive)])
                            ELSE create_fallback_mod(archive).mod

(***************************************************************************)
(* Properties of the manifest download (checked under SpecManifest).       *)
(***************************************************************************)
\* C24: whenever download_modpack_manifest has written the scratch archive,
\* the file is gone when the call returns, whether a manifest was found and
\* parsed, no manifest name was in the archive, the file was not a zip
\* archive, or the manifest was malformed JSON.
ScratchRemoved ==
    (scratch.pc = "returned" /\ scratch.written) => ~scratch.exists

\* a call that wrote the scratch file and failed on a malformed manifest has
\* returned
ScratchRemovedWitness ==
    /\ scratch.pc = "returned"
    /\ scratch.written
    /\ scratch.outcome = "raise"
    /\ scratch.content.zip
    /\ scratch.ret = "None"

(***************************************************************************)
(* Properties of the pacing gate (checked under SpecGate).                 *)
(***************************************************************************)
\* C25: a registry call goes out only after it has passed wait; wait never
\* turns a call away, a call that entered it stays in it until it passes; and
\* when a call passes, at least min_interval has gone by since the previous
\* call passed.
PacingGate ==
    /\ [](gate.pc = "passed" => gate.last_call - gate.previous >= MinInterval)
    /\ [][ /\ gate.pc = "sleeping" => gate'.pc \in {"sleeping", "passed"}
           /\ (gate.pc # "idle" /\ gate'.pc = "idle") => gate.pc = "passed" ]_vars

\* a call that arrived early was delayed and has passed exactly min_interval
\* after the previous one
PacingGateWitness ==
    /\ gate.pc = "passed"
    /\ gate.previous > 0
    /\ gate.read - gate.previous < MinInterval
    /\ gate.last_call - gate.previous = MinInterval

(***************************************************************************)
(* Properties of an add on a file that may not read back (checked under    *)
(* SpecFound).                                                             *)
(***************************************************************************)
\* the descriptors held by a staging file: those of its objects that
\* ModInfo.from_dict accepts, in document order
HeldDescriptors(file) ==
    LET Accepted(obj) == ModInfoAccepts(JsonObjectToDict(obj))
        objects == SelectSeq(file.doc, Accepted)
    IN  [k \in 1..Len(objects) |-> ModInfoFromDict(JsonObjectToDict(objects[k]))]

IsPrefixOf(s, t) == Len(s) <= Len(t) /\ SubSeq(t, 1, Len(s)) = s

\* C26 as claimed: after add_to_staging or add_mods_to_staging, every
\* descriptor the staging file held before the call is still in it, in the
\* same order, and the new descriptors come after them, also when the read
\* of the staging file failed during the call.
AddKeepsStaged ==
    [][ (lastOp = "none" /\ lastOp' \in {"add_to_staging", "add_mods_to_staging"}) =>
            IsPrefixOf(HeldDescriptors(stagingFile), HeldDescriptors(stagingFile')) ]_vars

(***************************************************************************)
(* Properties of the retries (checked under SpecRetry).                    *)
(***************************************************************************)
\* C27 as claimed: whatever an earlier attempt left at the temp path,
\* repeated download_file calls for the artifact against a remote that
\* serves the right content and answers ranges per HTTP eventually return
\* success with the right file at the destination.
RetryEventuallySucceeds ==
    <>(result.ret = "ok" /\ dest = FileOf(Source(RetryUrl)))

(***************************************************************************)
(* Resume across artifacts (checked under SpecDownload).                   *)
(***************************************************************************)
\* C28 as claimed: download_file appends the bytes of a 206 answer only to a
\* temp file that holds a prefix of the content now being fetched, and a call
\* that ends in the rename leaves that content, unmixed, at the destination.
ResumeNeverMixes ==
    result.op = "download_file" =>
        /\ (pc \in {"transfer", "verify"} /\ resp.status = 206) =>
              IsPrefixOf(hist.tempAtStart.data, Source(call.url))
        /\ (pc = "idle" /\ result.why = "renamed") => dest = FileOf(Source(call.url))

(***************************************************************************)
(* Properties of the update check (checked under SpecUpdate).              *)
(***************************************************************************)
\* C29 as claimed: after the update check, every installed mod that has a
\* newer compatible release is among the reported updates, and the check
\* does not end in 'up to date' while there is such a mod.
UpdatesDetected ==
    upd.op # "none" =>
        \A k \in 1..Len(upd.files) :
            upd.files[k].name \in upd.newer =>
                /\ \E u \in 1..Len(upd.updates) : upd.updates[u].new_version = "r2"
                /\ Len(upd.updates) >= Cardinality(upd.newer)
                /\ upd.message # "All mods are up to date!"

(***************************************************************************)
(* Properties of the qwikee settings (checked under SpecConfig).           *)
(***************************************************************************)
\* C30 as claimed: a config call that is given only --api-key, only
\* --mods-path, or both, leaves the stored auto_backup, timeout and
\* max_concurrent_downloads as they were before the call.
ConfigChangesOnlyGiven ==
    ( /\ conf.op \in {"config", "config unsaved"}
      /\ conf.given # {}
      /\ conf.given \subseteq {"--api-key", "--mods-path"} )
    => /\ conf.stored.auto_backup = conf.before.auto_backup
       /\ conf.stored.timeout = conf.before.timeout
       /\ conf.stored.max_concurrent_downloads = conf.before.max_concurrent_downloads

====
